---- MODULE Spec2Model ----
(***************************************************************************)
(* Model of the cognitive-grammar plugin's in-memory engines:              *)
(*   - CognitiveHypergraph        (hypergraph store)                       *)
(*   - CognitiveAttentionAllocator (attention allocator)                   *)
(*   - CognitiveKernelRegistry    (kernel registry)                        *)
(*   - CognitivePLNEngine         (inference engine)                       *)
(*   - CognitivePatternMatcher    (pattern matcher)                        *)
(* Each engine has its own specification (SpecGraph, SpecAlloc,            *)
(* SpecKernel, SpecPln, SpecMatcher); the engines share no state, so a     *)
(* specification leaves the other engines' variables untouched.            *)
(***************************************************************************)
EXTENDS Integers, Sequences, FiniteSets, TLC

VARIABLES
    nodes,        \* CognitiveHypergraph.nodes : Map<string, HypergraphNode>
    gLast,        \* the hypergraph call that returned last, and how it ended
    given,         \* the node object a caller passed to addNode and kept
    wLast,        \* the query/traverse call that returned last, and its result
    config,       \* CognitiveAttentionAllocator.config
    budget,       \* CognitiveAttentionAllocator.budget
    allocations,  \* CognitiveAttentionAllocator.allocations, in insertion order
    aCalls,       \* number of allocator calls made so far
    aLast,        \* the allocator call that returned last, and its result
    kernels,      \* CognitiveKernelRegistry.kernels : Map<string, CognitiveKernel>
    states,       \* CognitiveKernelRegistry.states : id -> the KernelState object
    objs,         \* the KernelState objects, by reference
    calls,        \* the activate calls in flight, suspended at their await
    started,      \* per kernel id: activate calls begun since its registration
    kLast,        \* the registry call that returned last, and how it ended
    hook,         \* the beforeValidate hook run in progress, or the last one
    rules,        \* CognitivePLNEngine.rules, in insertion order
    facts,        \* CognitivePLNEngine.facts : Map<string, TruthValue>
    pCalls,       \* number of calls that changed the engine's stores so far
    pLast,        \* the inference call that returned last, and its results
    patterns,     \* CognitivePatternMatcher.patterns, in insertion order
    mConfig,      \* CognitivePatternMatcher.config
    mCalls,       \* number of matcher calls made so far
    mLast         \* the matcher call that returned last, and its results

graphVars == <<nodes, gLast>>

callerVars == <<given, wLast>>

allocVars == <<config, budget, allocations, aCalls, aLast>>

kernelVars == <<kernels, states, objs, calls, started, kLast>>

hostVars == <<hook>>

plnVars == <<rules, facts, pCalls, pLast>>

matcherVars == <<patterns, mConfig, mCalls, mLast>>

vars == <<graphVars, callerVars, allocVars, kernelVars, hostVars, plnVars, matcherVars>>

\* What a call on one engine leaves alone: the other engines.
GraphOnly == UNCHANGED <<callerVars, allocVars, kernelVars, plnVars, matcherVars, hostVars>>

\* A hypergraph call in a specification that follows the caller's objects
\* and the results of the read calls.
StoreOnly == UNCHANGED <<allocVars, kernelVars, plnVars, matcherVars, hostVars>>

AllocOnly == UNCHANGED <<graphVars, callerVars, kernelVars, plnVars, matcherVars, hostVars>>

KernelOnly == UNCHANGED <<graphVars, callerVars, allocVars, plnVars, matcherVars, hostVars>>

\* A step of the hook: it works on the registry and on its own run.
HookOnly == UNCHANGED <<graphVars, callerVars, allocVars, plnVars, matcherVars>>

PlnOnly == UNCHANGED <<graphVars, callerVars, allocVars, kernelVars, matcherVars, hostVars>>

MatcherOnly == UNCHANGED <<graphVars, callerVars, allocVars, kernelVars, plnVars, hostVars>>

(***************************************************************************)
(* Hypergraph store                                                        *)
(***************************************************************************)

\* Node identifiers callers use; an id of this set that is not stored is an
\* unknown id.
NodeIds == {"a", "b"}

\* Longest outgoing/incoming list a node passed to addNode arrives with.
MaxArrive == 1

\* All sequences over S of length at most n.
SeqsUpTo(S, n) == UNION {[1..k -> S] : k \in 0..n}

ArrivingLists == SeqsUpTo(NodeIds, MaxArrive)

\* Array.prototype.includes
Includes(s, x) == \E i \in DOMAIN s : s[i] = x

\* Array.prototype.filter(id => id !== x)
FilterOut(s, x) == SelectSeq(s, LAMBDA e : e # x)

\* Array.prototype.push, guarded by !includes
PushIfAbsent(s, x) == IF Includes(s, x) THEN s ELSE Append(s, x)

\* The node value a caller hands to addNode.
NodeValue(id, out, inc) == [id |-> id, outgoing |-> out, incoming |-> inc]

\* addNode: nodes.set(node.id, {...node}) - inserts or overwrites by id; the
\* lists the node arrives with are stored as they are.
addNode(g, node) ==
    [n \in DOMAIN g \cup {node.id} |-> IF n = node.id THEN node ELSE g[n]]

\* addLink on a graph in which both endpoints are stored.
addLink(g, from, to) ==
    LET g1 == [g EXCEPT ![from].outgoing = PushIfAbsent(@, to)]
    IN  [g1 EXCEPT ![to].incoming = PushIfAbsent(@, from)]

removeLinkOutgoingOnly(g, from, to) ==
    IF from \in DOMAIN g
    THEN [g EXCEPT ![from].outgoing = FilterOut(@, to)]
    ELSE g

\* removeLink: each endpoint that is stored gets its list filtered.
removeLink(g, from, to) ==
    LET g1 == IF from \in DOMAIN g
              THEN [g EXCEPT ![from].outgoing = FilterOut(@, to)]
              ELSE g
    IN  IF to \in DOMAIN g1
        THEN [g1 EXCEPT ![to].incoming = FilterOut(@, from)]
        ELSE g1

\* for (const incomingId of node.incoming) this.removeLink(incomingId, id)
\* The loop runs over the array object it started on: removeLink replaces a
\* node's list by a filtered copy and never changes the array in place.
RECURSIVE removeIncomingLinks(_, _, _)
removeIncomingLinks(g, list, id) ==
    IF list = <<>> THEN g
    ELSE removeIncomingLinks(removeLink(g, Head(list), id), Tail(list), id)

\* for (const outgoingId of node.outgoing) this.removeLink(id, outgoingId)
RECURSIVE removeOutgoingLinks(_, _, _)
removeOutgoingLinks(g, list, id) ==
    IF list = <<>> THEN g
    ELSE removeOutgoingLinks(removeLink(g, id, Head(list)), Tail(list), id)

\* removeNode: no-op if absent; otherwise removeLink for every id the node
\* itself lists, then nodes.delete(id).
removeNode(g, id) ==
    IF id \notin DOMAIN g THEN g
    ELSE LET g1 == removeIncomingLinks(g, g[id].incoming, id)
             g2 == removeOutgoingLinks(g1, g1[id].outgoing, id)
         IN  [n \in DOMAIN g2 \ {id} |-> g2[n]]

\* Ids of a list that are stored, in list order, as the stored nodes.
RECURSIVE StoredOf(_, _)
StoredOf(g, list) ==
    IF list = <<>> THEN <<>>
    ELSE IF Head(list) \in DOMAIN g
         THEN <<g[Head(list)]>> \o StoredOf(g, Tail(list))
         ELSE StoredOf(g, Tail(list))

getIncoming(g, id) == IF id \notin DOMAIN g THEN <<>> ELSE StoredOf(g, g[id].incoming)

getOutgoing(g, id) == IF id \notin DOMAIN g THEN <<>> ELSE StoredOf(g, g[id].outgoing)

\* The record of a returned call: ok is FALSE when the call threw (addLink)
\* or found nothing to do (removeNode of an absent id); follows says that a
\* removeLink(from, to) came right after a successful addLink(from, to).
GCall(op, from, to, ok, follows) ==
    [op |-> op, from |-> from, to |-> to, ok |-> ok, follows |-> follows]

GraphInit ==
    /\ nodes = << >>
    /\ gLast = GCall("new", "a", "a", TRUE, FALSE)

AddNode ==
    \E id \in NodeIds, out \in ArrivingLists, inc \in ArrivingLists :
        /\ nodes' = addNode(nodes, NodeValue(id, out, inc))
        /\ gLast' = GCall("addNode", id, id, TRUE, FALSE)
        /\ GraphOnly

RemoveNode ==
    \E id \in NodeIds :
        /\ nodes' = removeNode(nodes, id)
        /\ gLast' = GCall("removeNode", id, id, id \in DOMAIN nodes, FALSE)
        /\ GraphOnly

AddLink ==
    \E from \in NodeIds, to \in NodeIds :
        /\ from \in DOMAIN nodes
        /\ to \in DOMAIN nodes
        /\ nodes' = addLink(nodes, from, to)
        /\ gLast' = GCall("addLink", from, to, TRUE, FALSE)
        /\ GraphOnly

AddLinkPushesThenThrows ==
    \E from \in NodeIds, to \in NodeIds :
        /\ from \notin DOMAIN nodes \/ to \notin DOMAIN nodes
        /\ nodes' = IF from \in DOMAIN nodes
                    THEN [nodes EXCEPT ![from].outgoing = PushIfAbsent(@, to)]
                    ELSE nodes
        /\ gLast' = GCall("addLink", from, to, FALSE, FALSE)
        /\ GraphOnly

\* throw new Error(`Cannot create link: node ... not found`)
AddLinkThrows ==
    \E from \in NodeIds, to \in NodeIds :
        /\ from \notin DOMAIN nodes \/ to \notin DOMAIN nodes
        /\ nodes' = nodes
        /\ gLast' = GCall("addLink", from, to, FALSE, FALSE)
        /\ GraphOnly

RemoveLink ==
    \E from \in NodeIds, to \in NodeIds :
        /\ nodes' = removeLink(nodes, from, to)
        /\ gLast' = GCall("removeLink", from, to, TRUE,
                          gLast = GCall("addLink", from, to, TRUE, FALSE))
        /\ GraphOnly

GraphNext == AddNode \/ RemoveNode \/ AddLink \/ AddLinkThrows \/ RemoveLink

(***************************************************************************)
(* The caller's node object.  addNode stores { ...node }: a new object     *)
(* whose outgoing and incoming fields hold the very arrays of the object   *)
(* the caller passed.  addLink pushes onto the stored node's arrays in     *)
(* place; removeLink gives the stored node new, filtered arrays.           *)
(***************************************************************************)

\* The object passed to the latest addNode, as the caller sees it now;
\* sharesOutgoing / sharesIncoming say that the stored node's field still
\* holds the caller's array.
HeldNode(node, sharesOutgoing, sharesIncoming) ==
    [kept |-> TRUE, id |-> node.id,
     outgoing |-> node.outgoing, incoming |-> node.incoming,
     sharesOutgoing |-> sharesOutgoing, sharesIncoming |-> sharesIncoming]

NoHeld ==
    [kept |-> FALSE, id |-> "a", outgoing |-> << >>, incoming |-> << >>,
     sharesOutgoing |-> FALSE, sharesIncoming |-> FALSE]

\* The caller's object after the store changed arrays in place: a shared
\* array is the stored node's array.
seenThroughSharedArrays(h, g) ==
    [h EXCEPT !.outgoing = IF h.sharesOutgoing THEN g[h.id].outgoing ELSE @,
              !.incoming = IF h.sharesIncoming THEN g[h.id].incoming ELSE @]

\* The removeLink(from, to) calls removeNode(id) makes on graph g.
removeLinkCalls(g, id) ==
    IF id \notin DOMAIN g THEN {}
    ELSE LET g1 == removeIncomingLinks(g, g[id].incoming, id)
         IN  {<<g[id].incoming[i], id>> : i \in DOMAIN g[id].incoming}
             \cup {<<id, g1[id].outgoing[i]>> : i \in DOMAIN g1[id].outgoing}

\* fromNode.outgoing = fromNode.outgoing.filter(...): after these
\* removeLink calls on graph g a stored endpoint holds arrays of its own.
unsharedBy(h, g, linkCalls) ==
    [h EXCEPT
       !.sharesOutgoing =
           @ /\ ~\E c \in linkCalls : c[1] = h.id /\ c[1] \in DOMAIN g,
       !.sharesIncoming =
           @ /\ ~\E c \in linkCalls : c[2] = h.id /\ c[2] \in DOMAIN g]

\* nodes.delete(id): the stored copy of the caller's object is gone.
unstored(h, id) ==
    IF h.id = id
    THEN [h EXCEPT !.sharesOutgoing = FALSE, !.sharesIncoming = FALSE]
    ELSE h

\* The caller's changes to its own object: pushing onto one of its arrays,
\* or giving one of its fields a new (empty) array.
CallerOps == {"pushOutgoing", "pushIncoming", "assignOutgoing", "assignIncoming"}

\* No query or traverse call has returned yet.
NoWalk == [op |-> "new"]

CallerIdle ==
    /\ given = NoHeld
    /\ wLast = NoWalk

HeldAddNode ==
    \E id \in NodeIds, out \in ArrivingLists, inc \in ArrivingLists :
        /\ nodes' = addNode(nodes, NodeValue(id, out, inc))
        /\ given' = HeldNode(NodeValue(id, out, inc), TRUE, TRUE)
        /\ gLast' = GCall("addNode", id, id, TRUE, FALSE)
        /\ UNCHANGED wLast
        /\ StoreOnly

HeldRemoveNode ==
    \E id \in NodeIds :
        /\ nodes' = removeNode(nodes, id)
        /\ given' = IF id \in DOMAIN nodes
                   THEN unstored(unsharedBy(given, nodes,
                                            removeLinkCalls(nodes, id)), id)
                   ELSE given
        /\ gLast' = GCall("removeNode", id, id, id \in DOMAIN nodes, FALSE)
        /\ UNCHANGED wLast
        /\ StoreOnly

HeldAddLink ==
    \E from \in NodeIds, to \in NodeIds :
        /\ from \in DOMAIN nodes
        /\ to \in DOMAIN nodes
        /\ nodes' = addLink(nodes, from, to)
        /\ given' = seenThroughSharedArrays(given, nodes')
        /\ gLast' = GCall("addLink", from, to, TRUE, FALSE)
        /\ UNCHANGED wLast
        /\ StoreOnly

HeldAddLinkThrows ==
    \E from \in NodeIds, to \in NodeIds :
        /\ from \notin DOMAIN nodes \/ to \notin DOMAIN nodes
        /\ nodes' = nodes
        /\ given' = given
        /\ gLast' = GCall("addLink", from, to, FALSE, FALSE)
        /\ UNCHANGED wLast
        /\ StoreOnly

HeldRemoveLink ==
    \E from \in NodeIds, to \in NodeIds :
        /\ nodes' = removeLink(nodes, from, to)
        /\ given' = unsharedBy(given, nodes, {<<from, to>>})
        /\ gLast' = GCall("removeLink", from, to, TRUE, FALSE)
        /\ UNCHANGED wLast
        /\ StoreOnly

\* node.outgoing.push(x) / node.incoming.push(x) by the caller.
CallerPush ==
    \E x \in NodeIds :
        /\ given.kept
        /\ \/ /\ Len(given.outgoing) < MaxArrive
              /\ given' = [given EXCEPT !.outgoing = Append(@, x)]
              /\ nodes' = IF given.sharesOutgoing
                          THEN [nodes EXCEPT ![given.id].outgoing = Append(@, x)]
                          ELSE nodes
              /\ gLast' = GCall("pushOutgoing", given.id, x, TRUE, FALSE)
           \/ /\ Len(given.incoming) < MaxArrive
              /\ given' = [given EXCEPT !.incoming = Append(@, x)]
              /\ nodes' = IF given.sharesIncoming
                          THEN [nodes EXCEPT ![given.id].incoming = Append(@, x)]
                          ELSE nodes
              /\ gLast' = GCall("pushIncoming", given.id, x, TRUE, FALSE)
        /\ UNCHANGED wLast
        /\ StoreOnly

\* node.outgoing = [] / node.incoming = [] by the caller: the field of the
\* caller's object changes, the stored copy keeps the old array.
CallerAssign ==
    /\ given.kept
    /\ \/ /\ given' = [given EXCEPT !.outgoing = << >>, !.sharesOutgoing = FALSE]
          /\ gLast' = GCall("assignOutgoing", given.id, given.id, TRUE, FALSE)
       \/ /\ given' = [given EXCEPT !.incoming = << >>, !.sharesIncoming = FALSE]
          /\ gLast' = GCall("assignIncoming", given.id, given.id, TRUE, FALSE)
    /\ nodes' = nodes
    /\ UNCHANGED wLast
    /\ StoreOnly

HeldNext ==
    \/ HeldAddNode
    \/ HeldRemoveNode
    \/ HeldAddLink
    \/ HeldAddLinkThrows
    \/ HeldRemoveLink
    \/ CallerPush
    \/ CallerAssign



(***************************************************************************)
(* Numbers.  The allocator computes with JavaScript numbers; the model     *)
(* computes with exact fractions [n, d] in lowest terms, d > 0, and keeps  *)
(* the two special values a division can produce: NaN (0/0) and the        *)
(* infinities (x/0).                                                       *)
(***************************************************************************)

Abs(x) == IF x < 0 THEN -x ELSE x

RECURSIVE GCD(_, _)
GCD(a, b) == IF b = 0 THEN a ELSE GCD(b, a % b)

NaN == [n |-> 0, d |-> 0]

PosInf == [n |-> 1, d |-> 0]

NegInf == [n |-> -1, d |-> 0]

IsNaN(x) == x.d = 0 /\ x.n = 0

IsFinite(x) == x.d # 0

\* The fraction n/d, d # 0, in lowest terms.
Frac(n, d) ==
    LET g == GCD(Abs(n), Abs(d))
        s == IF d < 0 THEN -1 ELSE 1
    IN  [n |-> (s * n) \div g, d |-> (s * d) \div g]

Zero == Frac(0, 1)

Sign(x) == IF x.n > 0 THEN 1 ELSE IF x.n < 0 THEN -1 ELSE 0

\* x + y
RAdd(x, y) ==
    IF IsNaN(x) \/ IsNaN(y) THEN NaN
    ELSE IF ~IsFinite(x) THEN (IF ~IsFinite(y) /\ y # x THEN NaN ELSE x)
    ELSE IF ~IsFinite(y) THEN y
    ELSE LET g == GCD(x.d, y.d)
         IN  Frac(x.n * (y.d \div g) + y.n * (x.d \div g), (x.d \div g) * y.d)

RNeg(x) == [n |-> -x.n, d |-> x.d]

\* x - y
RSub(x, y) == RAdd(x, RNeg(y))

\* x * y
RMul(x, y) ==
    IF IsNaN(x) \/ IsNaN(y) THEN NaN
    ELSE IF ~IsFinite(x) \/ ~IsFinite(y)
         THEN (IF Sign(x) * Sign(y) = 0 THEN NaN
               ELSE IF Sign(x) * Sign(y) > 0 THEN PosInf ELSE NegInf)
    ELSE LET a == Frac(x.n, y.d)
             c == Frac(y.n, x.d)
         IN  Frac(a.n * c.n, a.d * c.d)

\* x / y
RDiv(x, y) ==
    IF IsNaN(x) \/ IsNaN(y) THEN NaN
    ELSE IF ~IsFinite(x)
         THEN (IF ~IsFinite(y) THEN NaN
               ELSE IF Sign(x) * (IF Sign(y) < 0 THEN -1 ELSE 1) > 0 THEN PosInf ELSE NegInf)
    ELSE IF ~IsFinite(y) THEN Zero
    ELSE IF y.n = 0
         THEN (IF x.n = 0 THEN NaN ELSE IF x.n > 0 THEN PosInf ELSE NegInf)
    ELSE LET a == Frac(x.n, y.n)
             c == Frac(y.d, x.d)
         IN  Frac(a.n * c.n, a.d * c.d)

\* x < y; every comparison with NaN is false
RLess(x, y) ==
    IF IsNaN(x) \/ IsNaN(y) THEN FALSE
    ELSE IF ~IsFinite(x) THEN x = NegInf /\ y # NegInf
    ELSE IF ~IsFinite(y) THEN y = PosInf
    ELSE LET g == GCD(x.d, y.d)
         IN  x.n * (y.d \div g) < y.n * (x.d \div g)

\* x <= y
RLeq(x, y) == ~IsNaN(x) /\ ~IsNaN(y) /\ (x = y \/ RLess(x, y))

\* Math.min(x, y): NaN if either argument is NaN
RMin(x, y) ==
    IF IsNaN(x) \/ IsNaN(y) THEN NaN ELSE IF RLess(y, x) THEN y ELSE x

\* Math.max(x, y): NaN if either argument is NaN
RMax(x, y) ==
    IF IsNaN(x) \/ IsNaN(y) THEN NaN ELSE IF RLess(x, y) THEN y ELSE x

\* k tenths
Tenths(k) == Frac(k, 10)

(***************************************************************************)
(* Attention allocator                                                     *)
(***************************************************************************)

\* Module names callers pass: one that the configurations know and one that
\* no configuration knows.
Modules == {"perception", "planning"}

\* An entry of the allocations Map.
Entry(id, val) == [id |-> id, val |-> val]

\* AttentionAllocationConfig values the allocator is constructed with: the
\* total budget, the modules' initial shares in key order, and the emergency
\* pool.  The shares of each sum to at most the total budget.
ReferenceConfig ==
    [totalBudget |-> Tenths(10),
     modules |-> <<Entry("perception", Tenths(3)), Entry("reasoning", Tenths(4)),
                   Entry("memory", Tenths(3))>>,
     decayRate |-> Frac(95, 100),
     focusThreshold |-> Tenths(1),
     emergencyAllocation |-> Tenths(1)]

AllocConfigs ==
    { ReferenceConfig,
      [totalBudget |-> Tenths(10),
       modules |-> <<Entry("reasoning", Tenths(2)), Entry("perception", Tenths(6))>>,
       decayRate |-> Frac(95, 100),
       focusThreshold |-> Tenths(1),
       emergencyAllocation |-> Tenths(2)],
      [totalBudget |-> Tenths(5),
       modules |-> << >>,
       decayRate |-> Frac(95, 100),
       focusThreshold |-> Tenths(1),
       emergencyAllocation |-> Tenths(0)] }

\* Amounts callers pass to allocate and deallocate.
Amounts == {Tenths(0), Tenths(1), Tenths(3)}

\* Number of allocate/deallocate calls made on one allocator.
MaxCalls == 4

Has(allocs, id) == \E i \in DOMAIN allocs : allocs[i].id = id

IndexOf(allocs, id) == CHOOSE i \in DOMAIN allocs : allocs[i].id = id

\* this.allocations.get(moduleId) || 0
GetOrZero(allocs, id) ==
    IF Has(allocs, id) /\ ~IsNaN(allocs[IndexOf(allocs, id)].val)
    THEN allocs[IndexOf(allocs, id)].val
    ELSE Zero

\* this.allocations.set(moduleId, val): a known key keeps its place, a new
\* key goes last.
MapSet(allocs, id, val) ==
    IF Has(allocs, id)
    THEN [allocs EXCEPT ![IndexOf(allocs, id)].val = val]
    ELSE Append(allocs, Entry(id, val))

\* getAllocation(moduleId)
getAllocation(allocs, id) == GetOrZero(allocs, id)

\* getTotalAllocated(): values().reduce((sum, a) => sum + a, 0)
RECURSIVE getTotalAllocated(_)
getTotalAllocated(allocs) ==
    IF allocs = << >> THEN Zero
    ELSE RAdd(getTotalAllocated(SubSeq(allocs, 1, Len(allocs) - 1)),
              allocs[Len(allocs)].val)

\* getAvailable()
getAvailable(b, allocs) == RSub(b, getTotalAllocated(allocs))

\* canRedistribute without the allocations in use: available taken to be
\* the whole budget.
canRedistributeIgnoringTotal(cfg, b, allocs, requiredAmount) ==
    RLeq(requiredAmount, RAdd(b, cfg.emergencyAllocation))

\* canRedistribute(requiredAmount)
canRedistribute(cfg, b, allocs, requiredAmount) ==
    RLeq(requiredAmount, RAdd(getAvailable(b, allocs), cfg.emergencyAllocation))

\* entries.sort((a, b) => a[1] - b[1]): stable, ascending by allocation
RECURSIVE InsertSorted(_, _)
InsertSorted(sorted, e) ==
    IF sorted = << >> THEN <<e>>
    ELSE IF RLess(e.val, Head(sorted).val) THEN <<e>> \o sorted
         ELSE <<Head(sorted)>> \o InsertSorted(Tail(sorted), e)

RECURSIVE SortByAllocation(_)
SortByAllocation(entries) ==
    IF entries = << >> THEN << >>
    ELSE InsertSorted(SortByAllocation(SubSeq(entries, 1, Len(entries) - 1)),
                      entries[Len(entries)])

\* The loop of redistributeWithAmount over the sorted entries.
RECURSIVE TakeFrom(_, _, _, _)
TakeFrom(allocs, entries, deficit, redistributed) ==
    IF entries = << >> \/ RLeq(deficit, redistributed) THEN allocs
    ELSE LET e == Head(entries)
             reduction == RMin(RMul(e.val, Tenths(1)), RSub(deficit, redistributed))
         IN  TakeFrom(MapSet(allocs, e.id, RSub(e.val, reduction)), Tail(entries),
                      deficit, RAdd(redistributed, reduction))

\* redistributeWithAmount(requiredAmount)
redistributeWithAmount(b, allocs, requiredAmount) ==
    LET available == getAvailable(b, allocs)
    IN  IF RLeq(requiredAmount, available) THEN allocs
        ELSE TakeFrom(allocs, SortByAllocation(allocs),
                      RSub(requiredAmount, available), Zero)

\* allocate needs to make room: totalAllocated + amount > this.budget
OverBudget(b, allocs, amount) == RLess(b, RAdd(getTotalAllocated(allocs), amount))

\* What a call returns and the allocations it leaves.
Outcome(ok, allocs) == [ok |-> ok, allocations |-> allocs]

\* allocate that makes room before it knows whether room can be made.
allocateShrinkingFirst(cfg, b, allocs, moduleId, amount) ==
    LET currentAllocation == GetOrZero(allocs, moduleId)
        made == IF OverBudget(b, allocs, amount)
                THEN redistributeWithAmount(b, allocs, amount)
                ELSE allocs
    IN  IF OverBudget(b, allocs, amount) /\ ~canRedistribute(cfg, b, allocs, amount)
        THEN Outcome(FALSE, made)
        ELSE Outcome(TRUE, MapSet(made, moduleId, RAdd(currentAllocation, amount)))

\* allocate that reads the module's allocation after making room.
allocateReadingLate(cfg, b, allocs, moduleId, amount) ==
    IF OverBudget(b, allocs, amount) /\ ~canRedistribute(cfg, b, allocs, amount)
    THEN Outcome(FALSE, allocs)
    ELSE LET made == IF OverBudget(b, allocs, amount)
                     THEN redistributeWithAmount(b, allocs, amount)
                     ELSE allocs
         IN  Outcome(TRUE, MapSet(made, moduleId,
                                  RAdd(GetOrZero(made, moduleId), amount)))

\* allocate(moduleId, amount).  The module's allocation is read before any
\* redistribution; a call that cannot make room returns false before it has
\* written anything.
allocate(cfg, b, allocs, moduleId, amount) ==
    LET currentAllocation == GetOrZero(allocs, moduleId)
    IN  IF OverBudget(b, allocs, amount)
        THEN IF canRedistribute(cfg, b, allocs, amount)
             THEN Outcome(TRUE, MapSet(redistributeWithAmount(b, allocs, amount),
                                       moduleId, RAdd(currentAllocation, amount)))
             ELSE Outcome(FALSE, allocs)
        ELSE Outcome(TRUE, MapSet(allocs, moduleId, RAdd(currentAllocation, amount)))

\* deallocate that also refuses to take a module's whole allocation.
deallocateKeepingSome(allocs, moduleId, amount) ==
    LET currentAllocation == GetOrZero(allocs, moduleId)
    IN  IF RLeq(currentAllocation, amount)
        THEN Outcome(FALSE, allocs)
        ELSE Outcome(TRUE, MapSet(allocs, moduleId, RSub(currentAllocation, amount)))

\* deallocate without the test currentAllocation < amount.
deallocateUnchecked(allocs, moduleId, amount) ==
    Outcome(TRUE, MapSet(allocs, moduleId, RSub(GetOrZero(allocs, moduleId), amount)))

\* deallocate(moduleId, amount)
deallocate(allocs, moduleId, amount) ==
    LET currentAllocation == GetOrZero(allocs, moduleId)
    IN  IF RLess(currentAllocation, amount)
        THEN Outcome(FALSE, allocs)
        ELSE Outcome(TRUE, MapSet(allocs, moduleId, RSub(currentAllocation, amount)))

\* Module -> amount maps callers pass to simulateCompetition.
DemandAmounts == {Tenths(3), Tenths(8)}

DemandMaps == UNION {[D -> DemandAmounts] : D \in SUBSET Modules}

RECURSIVE SumOver(_, _)
SumOver(f, D) ==
    IF D = {} THEN Zero
    ELSE LET m == CHOOSE x \in D : TRUE
         IN  RAdd(f[m], SumOver(f, D \ {m}))

\* Array.from(map.values()).reduce((sum, v) => sum + v, 0)
SumValues(f) == SumOver(f, DOMAIN f)

\* simulateCompetition(demands): the granted amount per demanded module
simulateCompetition(b, allocs, demands) ==
    IF RLess(b, SumValues(demands))
    THEN [m \in DOMAIN demands |->
            LET currentAllocation == GetOrZero(allocs, m)
                competitiveWeight == RDiv(currentAllocation, getTotalAllocated(allocs))
                allocation == RMul(b, competitiveWeight)
            IN  RMin(demands[m], allocation)]
    ELSE [m \in DOMAIN demands |-> demands[m]]

NoMap == << >>

\* The record of a returned allocator call.
ACall(op, module, amount, ok, shrunk, demands, granted) ==
    [op |-> op, module |-> module, amount |-> amount, ok |-> ok,
     shrunk |-> shrunk, demands |-> demands, granted |-> granted]

ANew == ACall("new", "perception", Zero, TRUE, FALSE, NoMap, NoMap)

\* constructor(config)
AllocInit ==
    /\ config \in AllocConfigs
    /\ budget = config.totalBudget
    /\ allocations = config.modules
    /\ aCalls = 0
    /\ aLast = ANew

Allocate ==
    \E m \in Modules, amount \in Amounts :
        LET r == allocate(config, budget, allocations, m, amount)
        IN  /\ aCalls < MaxCalls
            /\ r.ok
            /\ allocations' = r.allocations
            /\ aCalls' = aCalls + 1
            /\ aLast' = ACall("allocate", m, amount, TRUE,
                              OverBudget(budget, allocations, amount), NoMap, NoMap)
            /\ UNCHANGED <<config, budget>>
            /\ AllocOnly

AllocateFails ==
    \E m \in Modules, amount \in Amounts :
        LET r == allocate(config, budget, allocations, m, amount)
        IN  /\ aCalls < MaxCalls
            /\ ~r.ok
            /\ allocations' = r.allocations
            /\ aCalls' = aCalls + 1
            /\ aLast' = ACall("allocate", m, amount, FALSE, FALSE, NoMap, NoMap)
            /\ UNCHANGED <<config, budget>>
            /\ AllocOnly

Deallocate ==
    \E m \in Modules, amount \in Amounts :
        LET r == deallocate(allocations, m, amount)
        IN  /\ aCalls < MaxCalls
            /\ r.ok
            /\ allocations' = r.allocations
            /\ aCalls' = aCalls + 1
            /\ aLast' = ACall("deallocate", m, amount, TRUE, FALSE, NoMap, NoMap)
            /\ UNCHANGED <<config, budget>>
            /\ AllocOnly

DeallocateFails ==
    \E m \in Modules, amount \in Amounts :
        LET r == deallocate(allocations, m, amount)
        IN  /\ aCalls < MaxCalls
            /\ ~r.ok
            /\ allocations' = r.allocations
            /\ aCalls' = aCalls + 1
            /\ aLast' = ACall("deallocate", m, amount, FALSE, FALSE, NoMap, NoMap)
            /\ UNCHANGED <<config, budget>>
            /\ AllocOnly

\* simulateCompetition reads the allocator and changes nothing in it.
SimulateCompetition ==
    \E demands \in DemandMaps :
        /\ aLast' = ACall("simulateCompetition", "perception", Zero, TRUE, FALSE,
                          demands, simulateCompetition(budget, allocations, demands))
        /\ UNCHANGED <<config, budget, allocations, aCalls>>
        /\ AllocOnly

AllocNext ==
    \/ Allocate \/ AllocateFails
    \/ Deallocate \/ DeallocateFails
    \/ SimulateCompetition

(***************************************************************************)
(* Attention allocator: redistribute and updateBudget.  The time since     *)
(* lastUpdate enters redistribute only through the decay factor            *)
(* Math.pow(decayRate, seconds), which the model draws from the powers of  *)
(* the decay rate.                                                         *)
(***************************************************************************)

One == Frac(1, 1)

\* Every allocation replaced by F of it, in Map order.
MapValues(allocs, F(_)) == [i \in DOMAIN allocs |-> Entry(allocs[i].id, F(allocs[i].val))]

\* applyEmergencyRedistribution()
applyEmergencyRedistribution(b, allocs) ==
    LET totalAllocated == getTotalAllocated(allocs)
        excess == RSub(totalAllocated, b)
        reductionFactor == RDiv(excess, totalAllocated)
    IN  MapValues(allocs,
                  LAMBDA allocation :
                      RMax(Zero, RSub(allocation, RMul(allocation, reductionFactor))))

\* applyDecay(), with decayFactor = Math.pow(decayRate, timeDelta)
applyDecay(allocs, decayFactor) ==
    MapValues(allocs, LAMBDA allocation : RMax(Zero, RMul(allocation, decayFactor)))

\* The boost loop of rebalanceAllocations with a boost that does not look at
\* what is available.
RECURSIVE BoostFreely(_, _, _)
BoostFreely(b, allocs, focused) ==
    IF focused = << >> THEN allocs
    ELSE LET e == Head(focused)
             boost == RMul(e.val, Frac(5, 100))
         IN  BoostFreely(b, MapSet(allocs, e.id, RAdd(e.val, boost)), Tail(focused))

\* for (const [moduleId, allocation] of focusedModules): the boost is the
\* smaller of 5% of the allocation and 10% of what is available at that
\* point of the loop.
RECURSIVE Boost(_, _, _)
Boost(b, allocs, focused) ==
    IF focused = << >> THEN allocs
    ELSE LET e == Head(focused)
             boost == RMin(RMul(e.val, Frac(5, 100)),
                           RMul(getAvailable(b, allocs), Tenths(1)))
         IN  Boost(b, MapSet(allocs, e.id, RAdd(e.val, boost)), Tail(focused))

\* rebalanceAllocations()
rebalanceAllocations(cfg, b, allocs) ==
    Boost(b, allocs, SelectSeq(allocs, LAMBDA e : RLess(cfg.focusThreshold, e.val)))

\* redistribute()
redistribute(cfg, b, allocs, decayFactor) ==
    IF RLess(b, getTotalAllocated(allocs))
    THEN applyEmergencyRedistribution(b, allocs)
    ELSE rebalanceAllocations(cfg, b, applyDecay(allocs, decayFactor))

\* updateBudget that rescales whenever the budget changes.
updateBudgetRescaling(b, allocs, newBudget) ==
    [budget |-> newBudget,
     allocations |-> MapValues(allocs, LAMBDA allocation :
                                           RMul(allocation, RDiv(newBudget, b)))]

\* updateBudget(newBudget): the new budget and the allocations it leaves
updateBudget(b, allocs, newBudget) ==
    [budget |-> newBudget,
     allocations |->
         IF RLess(newBudget, b)
         THEN LET reductionFactor == RDiv(newBudget, b)
              IN  MapValues(allocs, LAMBDA allocation : RMul(allocation, reductionFactor))
         ELSE allocs]

\* Configurations with non-negative shares, a decay rate in (0,1] and a focus
\* threshold.  The constructor takes the shares as they are: those of the
\* third sum to more than the total budget.
BudgetConfigs ==
    { [totalBudget |-> Tenths(10),
       modules |-> <<Entry("perception", Tenths(5)), Entry("reasoning", Tenths(5))>>,
       decayRate |-> Frac(1, 2),
       focusThreshold |-> Tenths(1),
       emergencyAllocation |-> Tenths(1)],
      [totalBudget |-> Tenths(10),
       modules |-> <<Entry("reasoning", Tenths(2)), Entry("perception", Tenths(6))>>,
       decayRate |-> One,
       focusThreshold |-> Zero,
       emergencyAllocation |-> Tenths(2)],
      [totalBudget |-> Tenths(10),
       modules |-> <<Entry("perception", Tenths(8)), Entry("memory", Tenths(7))>>,
       decayRate |-> Frac(1, 2),
       focusThreshold |-> Tenths(5),
       emergencyAllocation |-> Zero],
      [totalBudget |-> Tenths(5),
       modules |-> << >>,
       decayRate |-> Frac(1, 2),
       focusThreshold |-> Tenths(1),
       emergencyAllocation |-> Tenths(1)] }

\* Math.pow(decayRate, timeDelta) for 0, 1 and 2 seconds since lastUpdate.
DecayFactors(decayRate) == {One, decayRate, RMul(decayRate, decayRate)}

\* Budgets callers pass to updateBudget.
NewBudgets == {Zero, Tenths(5), Tenths(10), Tenths(20)}

\* The record of a returned redistribute or updateBudget call, with the
\* budget and the allocations the call found.
\* Number of calls made on one allocator when redistribute and updateBudget
\* are among them.
MaxBudgetCalls == 2

BCall(op, amount, shrunk, oldBudget, before) ==
    [op |-> op, module |-> "perception", amount |-> amount, ok |-> TRUE,
     shrunk |-> shrunk, demands |-> NoMap, granted |-> NoMap,
     oldBudget |-> oldBudget, before |-> before]

BudgetInit ==
    /\ config \in BudgetConfigs
    /\ budget = config.totalBudget
    /\ allocations = config.modules
    /\ aCalls = 0
    /\ aLast = ANew

Redistribute ==
    \E decayFactor \in DecayFactors(config.decayRate) :
        /\ aCalls < MaxBudgetCalls
        /\ allocations' = redistribute(config, budget, allocations, decayFactor)
        /\ aCalls' = aCalls + 1
        /\ aLast' = BCall("redistribute", decayFactor,
                          RLess(budget, getTotalAllocated(allocations)),
                          budget, allocations)
        /\ UNCHANGED <<config, budget>>
        /\ AllocOnly

UpdateBudget ==
    \E newBudget \in NewBudgets :
        LET r == updateBudget(budget, allocations, newBudget)
        IN  /\ aCalls < MaxBudgetCalls
            /\ budget' = r.budget
            /\ allocations' = r.allocations
            /\ aCalls' = aCalls + 1
            /\ aLast' = BCall("updateBudget", newBudget, RLess(newBudget, budget),
                              budget, allocations)
            /\ UNCHANGED config
            /\ AllocOnly

BudgetAllocate == aCalls < MaxBudgetCalls /\ Allocate

BudgetAllocateFails == aCalls < MaxBudgetCalls /\ AllocateFails

BudgetDeallocate == aCalls < MaxBudgetCalls /\ Deallocate

BudgetDeallocateFails == aCalls < MaxBudgetCalls /\ DeallocateFails

BudgetNext ==
    \/ BudgetAllocate \/ BudgetAllocateFails
    \/ BudgetDeallocate \/ BudgetDeallocateFails
    \/ Redistribute
    \/ UpdateBudget


(***************************************************************************)
(* Kernel registry                                                         *)
(*                                                                         *)
(* activate is an async function with one suspension point, the await of   *)
(* processKernel.  processKernel and the type handlers have no await of    *)
(* their own, so the handler has run - returned or thrown - by the time    *)
(* activate suspends; what follows the await (the success or the catch     *)
(* branch, and finally) runs when the call is resumed.  A call is therefore*)
(* two steps, and a KernelState is an object with an identity: the call    *)
(* keeps the object it looked up, whatever the states map holds when it    *)
(* resumes.  The performance score is counted in hundredths.  The          *)
(* lastActivation timestamp is not modelled.                               *)
(***************************************************************************)

KernelIds == {"k1", "k2"}

CallIds == {"c1", "c2"}

Inputs == {"doc"}

\* The eight KernelType tags.
KernelTypes ==
    {"hypergraph-primitive", "neural-symbolic-bridge", "attention-allocation",
     "pattern-matcher", "perception-layer", "reasoning-engine", "memory-system",
     "action-selector"}

\* A CognitiveKernel, as far as the registry and validateKernel read it: its
\* id, its type tag, the number of hypergraph nodes embedded in it, and the
\* validated fields, here with values validateKernel accepts.  The attention
\* budget is counted in hundredths.
Kernel(id, type, nodeCount) ==
    [id |-> id, type |-> type, nodeCount |-> nodeCount,
     name |-> "kernel", dimensions |-> <<1>>, attentionBudget |-> 50,
     priority |-> 5, dependencies |-> << >>]

\* The kernel with its own id as its only dependency.
SelfDependent(kernel) == [kernel EXCEPT !.dependencies = <<kernel.id>>]

\* Kernel definitions callers register.  "custom" is a type tag outside the
\* eight; an action-selector without nodes makes its handler throw.
KernelPool ==
    { Kernel("k1", "hypergraph-primitive", 1),
      Kernel("k1", "action-selector", 0),
      SelfDependent(Kernel("k2", "custom", 0)) }

\* validateKernel(kernel): the list of error messages.
validateKernel(kernel) ==
    (IF kernel.id = "" THEN <<"Kernel ID is required">> ELSE << >>)
    \o (IF kernel.name = "" THEN <<"Kernel name is required">> ELSE << >>)
    \o (IF Len(kernel.dimensions) = 0
        THEN <<"Tensor shape with dimensions is required">> ELSE << >>)
    \o (IF kernel.attentionBudget < 0 \/ kernel.attentionBudget > 100
        THEN <<"Attention budget must be between 0 and 1">> ELSE << >>)
    \o (IF kernel.priority < 0 \/ kernel.priority > 10
        THEN <<"Priority must be between 0 and 10">> ELSE << >>)
    \o (IF \E i \in DOMAIN kernel.dependencies : kernel.dependencies[i] = kernel.id
        THEN <<"Kernel cannot depend on itself">> ELSE << >>)

\* Activations of one kernel state.
MaxActivations == 12

\* performance: 1.0
FullPerformance == 100

\* state.performance + 0.01
SuccessStep == 1

\* state.performance - 0.1
FailureStep == 10

Min2(x, y) == IF x < y THEN x ELSE y

Max2(x, y) == IF x > y THEN x ELSE y

NoOutputs == [type |-> "none", input |-> "none"]

\* A KernelState that starts out active.
InitialStateActive(id) ==
    [id |-> id, active |-> TRUE, activationCount |-> 0, currentAttention |-> 0,
     performance |-> FullPerformance, errors |-> << >>, outputs |-> NoOutputs]

\* The initial KernelState register stores.
InitialState(id) ==
    [id |-> id, active |-> FALSE, activationCount |-> 0, currentAttention |-> 0,
     performance |-> FullPerformance, errors |-> << >>, outputs |-> NoOutputs]

\* A reference that holds no object.
NoState == [InitialState("none") EXCEPT !.performance = 0]

Refs == 1 .. (Cardinality(KernelIds) + Cardinality(CallIds))

\* What a handler produced: a result, or the message of the error it threw.
Returned(result) == [threw |-> FALSE, error |-> "", result |-> result]

Threw(message) == [threw |-> TRUE, error |-> message, result |-> NoOutputs]

ResultOf(type, input) == [type |-> type, input |-> input]

\* processActionSelector: options.reduce(...) without an initial value
\* throws a TypeError on an empty node list.
processActionSelector(kernel) ==
    IF kernel.nodeCount = 0
    THEN Threw("Reduce of empty array with no initial value")
    ELSE Returned(ResultOf("action-selection-result", "none"))

\* processKernel: the switch over kernel.type.
processKernel(kernel, input) ==
    CASE kernel.type = "hypergraph-primitive" ->
             Returned(ResultOf("hypergraph-result", input))
      [] kernel.type = "neural-symbolic-bridge" ->
             Returned(ResultOf("neural-symbolic-result", input))
      [] kernel.type = "attention-allocation" ->
             Returned(ResultOf("attention-allocation-result", "none"))
      [] kernel.type = "pattern-matcher" ->
             Returned(ResultOf("pattern-matching-result", input))
      [] kernel.type = "perception-layer" ->
             Returned(ResultOf("perception-result", input))
      [] kernel.type = "reasoning-engine" ->
             Returned(ResultOf("reasoning-result", input))
      [] kernel.type = "memory-system" ->
             Returned(ResultOf("memory-result", input))
      [] kernel.type = "action-selector" -> processActionSelector(kernel)
      [] OTHER -> Threw("Unknown kernel type")

\* getState(id): the stored state, or undefined
HasState(id) == id \in DOMAIN states

getState(id) == objs[states[id]]

\* References the in-flight calls hold.
HeldRefs == {calls[c].state : c \in {x \in CallIds : calls[x].pc = "awaiting"}}

\* The object a new KernelState gets: the first reference that neither the
\* map (leaving out the entry about to be overwritten) nor a call holds.
FreshRef(id) ==
    LET used == {states[k] : k \in DOMAIN states \ {id}} \cup HeldRefs
    IN  CHOOSE r \in Refs \ used : \A q \in Refs \ used : r <= q

\* Objects that nothing refers to any more are dropped.
Collect(o, st, held) ==
    [r \in Refs |-> IF r \in {st[k] : k \in DOMAIN st} \cup held THEN o[r] ELSE NoState]

MapPut(f, k, v) == [x \in DOMAIN f \cup {k} |-> IF x = k THEN v ELSE f[x]]

MapDelete(f, k) == [x \in DOMAIN f \ {k} |-> f[x]]

\* activate, up to the await, keeping the errors of earlier activations.
activateEnterKeepingErrors(state) ==
    [state EXCEPT !.active = TRUE, !.activationCount = @ + 1]

\* activate, up to the await, without the count.
activateEnterUncounted(state) ==
    [state EXCEPT !.active = TRUE, !.errors = << >>]

\* activate, up to the await: state.active = true; activationCount++;
\* errors = []
activateEnter(state) ==
    [state EXCEPT !.active = TRUE,
                  !.activationCount = @ + 1,
                  !.errors = << >>]

\* activate, the catch branch without the clamp at 0.
activateCatchUnclamped(state, message) ==
    [state EXCEPT !.errors = Append(@, message),
                  !.performance = @ - FailureStep,
                  !.active = FALSE]

\* activate, the success branch without the clamp at 1.0.
activateSuccessUnclamped(state, result) ==
    [state EXCEPT !.outputs = result,
                  !.performance = @ + SuccessStep,
                  !.active = FALSE]

\* activate, after the await, success: outputs = result; performance =
\* min(1.0, performance + 0.01); finally active = false
activateSuccess(state, result) ==
    [state EXCEPT !.outputs = result,
                  !.performance = Min2(FullPerformance, @ + SuccessStep),
                  !.active = FALSE]

\* activate, after the await, catch: errors.push(message); performance =
\* max(0.0, performance - 0.1); finally active = false
activateCatch(state, message) ==
    [state EXCEPT !.errors = Append(@, message),
                  !.performance = Max2(0, @ - FailureStep),
                  !.active = FALSE]

\* A lookup that makes up the state it does not find.
lookupCreating(ks, st, id) ==
    [found |-> id \in DOMAIN ks /\ id \in DOMAIN st,
     states |-> IF id \in DOMAIN st THEN st ELSE MapPut(st, id, FreshRef(id))]

\* activate's lookup: kernels.get(id), states.get(id); it writes nothing.
lookup(ks, st, id) ==
    [found |-> id \in DOMAIN ks /\ id \in DOMAIN st, states |-> st]

IdleCall ==
    [pc |-> "idle", id |-> "none", input |-> "none", state |-> 0,
     outcome |-> Returned(NoOutputs), before |-> NoState]

\* The record of a returned registry call (result is the kernel for
\* register).  outcome is "resolved",
\* "rejected" (the handler's error), "notFound" or "pending" (suspended at
\* its await) for activate, "done" otherwise; before is the kernel's state when the call was made.
KCall(op, id, outcome, error, result, before) ==
    [op |-> op, id |-> id, outcome |-> outcome, error |-> error,
     result |-> result, before |-> before]

KNew == KCall("new", "none", "done", "", NoOutputs, NoState)

\* new CognitiveKernelRegistry()
KernelInit ==
    /\ kernels = << >>
    /\ states = << >>
    /\ objs = [r \in Refs |-> NoState]
    /\ calls = [c \in CallIds |-> IdleCall]
    /\ started = [id \in KernelIds |-> 0]
    /\ kLast = KNew

\* register(kernel)
DoRegister(kernel) ==
    LET r == FreshRef(kernel.id)
        st == MapPut(states, kernel.id, r)
    IN  /\ kernels' = MapPut(kernels, kernel.id, kernel)
        /\ states' = st
        /\ objs' = Collect([objs EXCEPT ![r] = InitialState(kernel.id)], st, HeldRefs)
        /\ started' = [started EXCEPT ![kernel.id] = 0]
        /\ kLast' = KCall("register", kernel.id, "done", "", kernel,
                          IF HasState(kernel.id) THEN getState(kernel.id) ELSE NoState)
        /\ UNCHANGED calls
        /\ KernelOnly

\* unregister(id)
DoUnregister(id) ==
    /\ kernels' = MapDelete(kernels, id)
    /\ states' = MapDelete(states, id)
    /\ objs' = Collect(objs, states', HeldRefs)
    /\ started' = [started EXCEPT ![id] = 0]
    /\ kLast' = KCall("unregister", id, "done", "", NoOutputs, NoState)
    /\ UNCHANGED calls
    /\ KernelOnly

\* register keeps the caller's kernel object, not a copy of it
\* (kernels.set(kernel.id, kernel)): what the caller changes in that object
\* afterwards is what a later activate reads.  The state is not touched.
DoEditKernel(kernel) ==
    /\ kernel.id \in DOMAIN kernels
    /\ kernels[kernel.id] # kernel
    /\ kernels' = [kernels EXCEPT ![kernel.id] = kernel]
    /\ kLast' = KCall("edit", kernel.id, "done", "", NoOutputs, NoState)
    /\ UNCHANGED <<states, objs, calls, started>>
    /\ KernelOnly

\* deactivate(id)
DoDeactivate(id) ==
    /\ objs' = IF HasState(id) THEN [objs EXCEPT ![states[id]].active = FALSE] ELSE objs
    /\ kLast' = KCall("deactivate", id, "done", "", NoOutputs, NoState)
    /\ UNCHANGED <<kernels, states, calls, started>>
    /\ KernelOnly

\* activate(id, input) on an id the lookup does not find:
\* throw new Error(`Kernel ${id} not found`)
DoActivateNotFound(id, input) ==
    LET found == lookup(kernels, states, id)
    IN  /\ ~found.found
        /\ states' = found.states
        /\ kLast' = KCall("activate", id, "notFound", "Kernel not found", NoOutputs, NoState)
        /\ UNCHANGED <<kernels, objs, calls, started>>
        /\ KernelOnly

\* activate(id, input) up to its await, as call c
activateStart(c, id, input) ==
    LET found == lookup(kernels, states, id)
    IN  /\ found.found
        /\ calls[c].pc = "idle"
        /\ getState(id).activationCount < MaxActivations
        /\ states' = found.states
        /\ objs' = [objs EXCEPT ![states[id]] = activateEnter(@)]
        /\ calls' = [calls EXCEPT ![c] =
                        [pc |-> "awaiting", id |-> id, input |-> input,
                         state |-> states[id],
                         outcome |-> processKernel(kernels[id], input),
                         before |-> getState(id)]]
        /\ started' = [started EXCEPT ![id] = @ + 1]
        /\ kLast' = KCall("activate", id, "pending", "", NoOutputs, getState(id))
        /\ UNCHANGED kernels

DoActivateStart(c, id, input) == activateStart(c, id, input) /\ KernelOnly

\* call c resumes after the handler returned
activateResolved(c) ==
    /\ calls[c].pc = "awaiting"
    /\ ~calls[c].outcome.threw
    /\ calls' = [calls EXCEPT ![c] = IdleCall]
    /\ objs' = Collect([objs EXCEPT ![calls[c].state] =
                           activateSuccess(@, calls[c].outcome.result)],
                       states, {calls'[x].state : x \in {y \in CallIds : calls'[y].pc = "awaiting"}})
    /\ kLast' = KCall("activate", calls[c].id, "resolved", "",
                      calls[c].outcome.result, calls[c].before)
    /\ UNCHANGED <<kernels, states, started>>

DoActivateResolve(c) == activateResolved(c) /\ KernelOnly

\* call c resumes after the handler threw
activateRejected(c) ==
    /\ calls[c].pc = "awaiting"
    /\ calls[c].outcome.threw
    /\ calls' = [calls EXCEPT ![c] = IdleCall]
    /\ objs' = Collect([objs EXCEPT ![calls[c].state] =
                           activateCatch(@, calls[c].outcome.error)],
                       states, {calls'[x].state : x \in {y \in CallIds : calls'[y].pc = "awaiting"}})
    /\ kLast' = KCall("activate", calls[c].id, "rejected", calls[c].outcome.error,
                      NoOutputs, calls[c].before)
    /\ UNCHANGED <<kernels, states, started>>

DoActivateReject(c) == activateRejected(c) /\ KernelOnly

\* No activate call is suspended: the registry is touched by one call at a
\* time.
Quiet == \A c \in CallIds : calls[c].pc = "idle"

\* The slot a call takes when no other call is in flight.
FirstCall == "c1"

Register == Quiet /\ \E kernel \in KernelPool : DoRegister(kernel)

EditKernel == Quiet /\ \E kernel \in KernelPool : DoEditKernel(kernel)

Unregister == Quiet /\ \E id \in KernelIds : DoUnregister(id)

Deactivate == Quiet /\ \E id \in KernelIds : DoDeactivate(id)

ActivateNotFound == Quiet /\ \E id \in KernelIds, input \in Inputs : DoActivateNotFound(id, input)

ActivateStart == Quiet /\ \E id \in KernelIds, input \in Inputs : DoActivateStart(FirstCall, id, input)

ActivateResolve == \E c \in CallIds : DoActivateResolve(c)

ActivateReject == \E c \in CallIds : DoActivateReject(c)

KernelNext ==
    \/ Register \/ EditKernel \/ Unregister \/ Deactivate
    \/ ActivateNotFound \/ ActivateStart \/ ActivateResolve \/ ActivateReject

\* Activations begun per registration of a kernel under overlapping calls.
MaxOverlap == 3

\* Activations of the one kernel that is never registered again.
MaxInFlight == 8

\* The registry under overlapping calls: a call is made whether or not an
\* activate is suspended at its await, and a second activate may begin
\* before the first has resumed.
\* The kernel the overlapping calls are about: its two definitions, one
\* whose handler returns and one whose handler throws.
OverlapPool == {kernel \in KernelPool : kernel.id = "k1"}

OverlapRegister == \E kernel \in OverlapPool : DoRegister(kernel)

OverlapUnregister == \E id \in KernelIds : DoUnregister(id)

OverlapDeactivate == \E id \in KernelIds : DoDeactivate(id)

OverlapActivateNotFound ==
    \E id \in KernelIds, input \in Inputs : DoActivateNotFound(id, input)

OverlapActivateStart ==
    \E c \in CallIds, id \in KernelIds, input \in Inputs :
        started[id] < MaxOverlap /\ DoActivateStart(c, id, input)

OverlapNext ==
    \/ OverlapRegister \/ OverlapUnregister \/ OverlapDeactivate
    \/ OverlapActivateNotFound \/ OverlapActivateStart
    \/ ActivateResolve \/ ActivateReject

\* Activations of one registered kernel and nothing else: the kernel is
\* registered once, and never unregistered or deactivated.
InFlightRegister ==
    /\ kernels = << >>
    /\ \E kernel \in OverlapPool : DoRegister(kernel)

InFlightActivateStart ==
    \E c \in CallIds, id \in KernelIds, input \in Inputs :
        started[id] < MaxInFlight /\ DoActivateStart(c, id, input)

InFlightNext ==
    \/ InFlightRegister \/ InFlightActivateStart
    \/ ActivateResolve \/ ActivateReject

(***************************************************************************)
(* The beforeValidate hook of a collection with cognitive processing       *)
(*                                                                         *)
(* One run of the hook is a loop over the collection's configured kernel   *)
(* ids; it is suspended at the await of each activate, and the registry    *)
(* may be changed by other callers while it is.  A collection without a    *)
(* kernel list runs the hook as with an empty list.                        *)
(***************************************************************************)

\* Hook runs per behaviour.
MaxHookRuns == 2

\* The call slot of the hook's activate.
HookCall == "c2"

\* cognitiveConfig.kernels
HookLists == {<< >>, <<"k1">>, <<"k2", "k1">>, <<"k1", "k2", "k1">>}

\* A hook run: where it is, the configured list, the index of the entry the
\* loop is at, what Object.assign merged into data, and per entry handled so
\* far whether the id was registered when the loop reached it and how the
\* body ended.
HookRun(pc, list, i, data, handled, runs) ==
    [pc |-> pc, kernels |-> list, i |-> i, data |-> data, handled |-> handled,
     runs |-> runs]

Handled(id, registered, how) == [id |-> id, registered |-> registered, how |-> how]

NoHook == HookRun("idle", << >>, 1, << >>, << >>, 0)

HookIdle == hook = NoHook

\* The loop body after the awaited activate settled, with a catch that
\* throws the error on.
afterActivateRethrowing(h, outcome) ==
    IF outcome.threw
    THEN [h EXCEPT !.pc = "failed",
                   !.handled = Append(@, Handled(h.kernels[h.i], TRUE, "thrown"))]
    ELSE [h EXCEPT !.pc = "running", !.i = @ + 1,
                   !.data = Append(@, outcome.result),
                   !.handled = Append(@, Handled(h.kernels[h.i], TRUE, "merged"))]

\* The loop body after the awaited activate settled: if (result)
\* Object.assign(data, result), or the catch that at most logs.
afterActivate(h, outcome) ==
    IF outcome.threw
    THEN [h EXCEPT !.pc = "running", !.i = @ + 1,
                   !.handled = Append(@, Handled(h.kernels[h.i], TRUE, "caught"))]
    ELSE [h EXCEPT !.pc = "running", !.i = @ + 1,
                   !.data = Append(@, outcome.result),
                   !.handled = Append(@, Handled(h.kernels[h.i], TRUE, "merged"))]

\* The hook is called with a document's data.
HookStart ==
    /\ hook.pc \in {"idle", "returned"}
    /\ hook.runs < MaxHookRuns
    /\ \E list \in HookLists :
           hook' = HookRun("running", list, 1, << >>, << >>, hook.runs + 1)
    /\ UNCHANGED kernelVars
    /\ HookOnly

\* const kernel = kernelRegistry.get(kernelId); if (kernel) is false
HookSkip ==
    /\ hook.pc = "running"
    /\ hook.i <= Len(hook.kernels)
    /\ hook.kernels[hook.i] \notin DOMAIN kernels
    /\ hook' = [hook EXCEPT !.i = @ + 1,
                            !.handled = Append(@, Handled(hook.kernels[hook.i],
                                                          HasState(hook.kernels[hook.i]),
                                                          "skipped"))]
    /\ UNCHANGED kernelVars
    /\ HookOnly

\* if (kernel) is true: kernelRegistry.activate(kernelId, data), up to its
\* await
HookActivate ==
    /\ hook.pc = "running"
    /\ hook.i <= Len(hook.kernels)
    /\ hook.kernels[hook.i] \in DOMAIN kernels
    /\ \E input \in Inputs : activateStart(HookCall, hook.kernels[hook.i], input)
    /\ hook' = [hook EXCEPT !.pc = "awaiting"]
    /\ HookOnly

\* the awaited activate resolved
HookResolved ==
    /\ hook.pc = "awaiting"
    /\ activateResolved(HookCall)
    /\ hook' = afterActivate(hook, calls[HookCall].outcome)
    /\ HookOnly

\* the awaited activate rejected
HookRejected ==
    /\ hook.pc = "awaiting"
    /\ activateRejected(HookCall)
    /\ hook' = afterActivate(hook, calls[HookCall].outcome)
    /\ HookOnly

\* return data
HookReturn ==
    /\ hook.pc = "running"
    /\ hook.i > Len(hook.kernels)
    /\ hook' = [hook EXCEPT !.pc = "returned"]
    /\ UNCHANGED kernelVars
    /\ HookOnly

\* Other callers of the registry while a hook run is in progress or not.
HostRegister == \E kernel \in KernelPool : DoRegister(kernel)

HostUnregister == \E id \in KernelIds : DoUnregister(id)

HookNext ==
    \/ HostRegister \/ HostUnregister
    \/ HookStart \/ HookSkip \/ HookActivate
    \/ HookResolved \/ HookRejected \/ HookReturn

(***************************************************************************)
(* Inference engine                                                        *)
(*                                                                         *)
(* The rule store is a Map in insertion order: a sequence of rules with    *)
(* distinct ids.  Working memory is a Map in insertion order as well, a    *)
(* sequence of entries [id, val].  Truth values are pairs of exact         *)
(* fractions.                                                              *)
(***************************************************************************)

\* private maxInferenceDepth: number = 10
maxInferenceDepth == 10

TruthValue(strength, uncertainty) == [strength |-> strength, uncertainty |-> uncertainty]

\* { strength: 1.0, uncertainty: 0.0 }
Certain == TruthValue(Frac(1, 1), Zero)

\* A SymbolicRule, as far as the engine reads it.
Rule(id, premise, conclusion, truthValue) ==
    [id |-> id, premise |-> premise, conclusion |-> conclusion, truthValue |-> truthValue]

\* Statements c0 .. c11 and the rules ci-1 -> ci that chain them; a rule is
\* named after its conclusion.
ChainAtoms == <<"c0", "c1", "c2", "c3", "c4", "c5", "c6", "c7", "c8", "c9", "c10", "c11">>

ChainRule(i) == Rule(ChainAtoms[i + 1], <<ChainAtoms[i]>>, ChainAtoms[i + 1], Certain)

\* The chain, its rules added last link first.
ReverseChain == [i \in 1 .. (Len(ChainAtoms) - 1) |-> ChainRule(Len(ChainAtoms) - i)]

\* Rules callers add.  r1 is the rule of the reference scenario; r5 has no
\* premise; the second r4 replaces the first and has a variable premise.
RulePool ==
    { Rule("r1", <<"p", "q">>, "r", TruthValue(Frac(9, 10), Frac(1, 10))),
      Rule("r2", <<"r">>, "g", TruthValue(Frac(1, 2), Zero)),
      Rule("r3", <<"p", "x">>, "g", TruthValue(Frac(4, 5), Zero)),
      Rule("r4", <<"p">>, "g", TruthValue(Frac(3, 5), Frac(1, 5))),
      Rule("r4", <<"$x">>, "q", Certain),
      Rule("r5", << >>, "r", TruthValue(Frac(7, 10), Zero)) }

RuleIds == {r.id : r \in RulePool}

\* Rule stores an engine is handed over with: a new one, and one that was
\* given the chain.
RuleStores == {<< >>, ReverseChain}

FactNames == {"p", "q"}

FactValues == {Certain, TruthValue(Frac(1, 2), Frac(1, 2))}

\* Premise lists passed to forwardChain and infer.
PremiseLists == {<< >>, <<"p">>, <<"p", "q">>, <<"q", "p", "r">>, <<"c0">>, <<"c0", "p", "q">>}

Goals == {"p", "r", "g", "x", "c11", "c1"}

\* Calls that change the rule or the fact store.
MaxStoreCalls == 3

\* Rules of a store with cycles.
MaxCycleRules == 3

\* rules.set(rule.id, rule): an id that is stored keeps its place
addRule(rs, rule) ==
    IF \E i \in DOMAIN rs : rs[i].id = rule.id
    THEN [i \in DOMAIN rs |-> IF rs[i].id = rule.id THEN rule ELSE rs[i]]
    ELSE Append(rs, rule)

\* rules.delete(id)
removeRule(rs, id) == SelectSeq(rs, LAMBDA r : r.id # id)

\* facts.set(fact, truthValue)
addFact(fs, fact, truthValue) == MapPut(fs, fact, truthValue)

\* facts.delete(fact)
removeFact(fs, fact) == MapDelete(fs, fact)

\* premises.forEach(premise => workingMemory.set(premise, {1.0, 0.0}))
RECURSIVE SeedMemory(_, _)
SeedMemory(premises, wm) ==
    IF premises = << >> THEN wm
    ELSE SeedMemory(Tail(premises), MapSet(wm, Head(premises), Certain))

\* pattern.includes('*'): the glob patterns among the statements
Globs == {"*"}

\* pattern.startsWith('$')
Variables == {"$x"}

\* new RegExp(`^${pattern.replace(/\*/g, '.*')}$`).test(fact), for the
\* pattern "*"
GlobTest(pattern, fact) == pattern = "*"

isPatternMatch(pattern, fact) ==
    IF pattern = fact THEN TRUE
    ELSE IF pattern \in Globs THEN GlobTest(pattern, fact)
    ELSE pattern \in Variables

matchesPattern(premise, wm) == \E i \in DOMAIN wm : isPatternMatch(premise, wm[i].id)

\* The first entry of working memory the premise matches, 0 if none.
findPatternMatch(premise, wm) ==
    IF matchesPattern(premise, wm)
    THEN CHOOSE i \in DOMAIN wm :
             /\ isPatternMatch(premise, wm[i].id)
             /\ \A j \in 1 .. (i - 1) : ~isPatternMatch(premise, wm[j].id)
    ELSE 0

canApplyRule(rule, wm) ==
    \A k \in DOMAIN rule.premise :
        Has(wm, rule.premise[k]) \/ matchesPattern(rule.premise[k], wm)

\* The conjunction loop of combineTruthValues.
RECURSIVE Conjoin(_, _, _)
Conjoin(tvs, strength, uncertainty) ==
    IF tvs = << >> THEN TruthValue(strength, RMin(uncertainty, Frac(1, 1)))
    ELSE Conjoin(Tail(tvs),
                 RMul(strength, Head(tvs).strength),
                 RAdd(uncertainty,
                      RMul(Head(tvs).uncertainty, RSub(Frac(1, 1), uncertainty))))

combineTruthValues(tvs) ==
    IF Len(tvs) = 0 THEN TruthValue(Zero, Frac(1, 1))
    ELSE IF Len(tvs) = 1 THEN tvs[1]
    ELSE Conjoin(tvs, Frac(1, 1), Zero)

\* The deduction formula without the rule's own strength.
combineRuleTruthValueOfPremises(ruleTv, premiseTv) ==
    TruthValue(premiseTv.strength,
               RMin(RSub(RAdd(ruleTv.uncertainty, premiseTv.uncertainty),
                         RMul(ruleTv.uncertainty, premiseTv.uncertainty)),
                    Frac(1, 1)))

combineRuleTruthValue(ruleTv, premiseTv) ==
    TruthValue(RMul(ruleTv.strength, premiseTv.strength),
               RMin(RSub(RAdd(ruleTv.uncertainty, premiseTv.uncertainty),
                         RMul(ruleTv.uncertainty, premiseTv.uncertainty)),
                    Frac(1, 1)))

calculateConfidence(ruleTv, premiseTv) ==
    LET c == combineRuleTruthValue(ruleTv, premiseTv)
    IN  RMul(c.strength, RSub(Frac(1, 1), c.uncertainty))

InferenceResult(conclusion, premises, rule, truthValue, confidence, steps) ==
    [conclusion |-> conclusion, premises |-> premises, rule |-> rule,
     truthValue |-> truthValue, confidence |-> confidence, steps |-> steps]

\* The working-memory entry applyRule reads for a premise, 0 if none.
PremiseEntry(premise, wm) ==
    IF Has(wm, premise) THEN IndexOf(wm, premise) ELSE findPatternMatch(premise, wm)

\* applyRule(rule, workingMemory); found is FALSE for null
applyRule(rule, wm) ==
    IF \E k \in DOMAIN rule.premise : PremiseEntry(rule.premise[k], wm) = 0
    THEN [found |-> FALSE]
    ELSE LET entries == [k \in DOMAIN rule.premise |-> wm[PremiseEntry(rule.premise[k], wm)]]
             combined == combineTruthValues([k \in DOMAIN entries |-> entries[k].val])
         IN  [found |-> TRUE,
              inference |->
                  InferenceResult(rule.conclusion,
                                  [k \in DOMAIN entries |-> entries[k].id],
                                  rule.id,
                                  combineRuleTruthValue(rule.truthValue, combined),
                                  calculateConfidence(rule.truthValue, combined),
                                  1)]

\* results.sort((a, b) => b.confidence - a.confidence): stable, descending
RECURSIVE InsertByConfidence(_, _)
InsertByConfidence(sorted, e) ==
    IF sorted = << >> THEN <<e>>
    ELSE IF RLess(Head(sorted).confidence, e.confidence) THEN <<e>> \o sorted
    ELSE <<Head(sorted)>> \o InsertByConfidence(Tail(sorted), e)

RECURSIVE SortByConfidence(_)
SortByConfidence(results) ==
    IF results = << >> THEN << >>
    ELSE InsertByConfidence(SortByConfidence(SubSeq(results, 1, Len(results) - 1)),
                            results[Len(results)])

\* One pass of forwardChain's while loop over rules.values(), from rule i
\* on: a rule fires when it can be applied and its conclusion is not in
\* working memory yet.
RECURSIVE RunPass(_, _, _, _, _, _)
RunPass(rs, i, wm, results, changed, steps) ==
    IF i > Len(rs) THEN [wm |-> wm, results |-> results, changed |-> changed]
    ELSE LET a == IF canApplyRule(rs[i], wm) THEN applyRule(rs[i], wm)
                  ELSE [found |-> FALSE]
         IN  IF a.found /\ ~Has(wm, a.inference.conclusion)
             THEN RunPass(rs, i + 1,
                          MapSet(wm, a.inference.conclusion, a.inference.truthValue),
                          Append(results, [a.inference EXCEPT !.steps = steps]),
                          TRUE, steps)
             ELSE RunPass(rs, i + 1, wm, results, changed, steps)

\* The loop of forwardChain cut after its first pass.
PassesOnce(rs, wm, results, changed, steps) ==
    IF changed /\ steps < 1
    THEN LET p == RunPass(rs, 1, wm, results, FALSE, steps + 1)
         IN  [results |-> p.results, changed |-> p.changed, steps |-> steps + 1]
    ELSE [results |-> results, changed |-> changed, steps |-> steps]

\* while (changed && steps < this.maxInferenceDepth)
RECURSIVE Passes(_, _, _, _, _)
Passes(rs, wm, results, changed, steps) ==
    IF changed /\ steps < maxInferenceDepth
    THEN LET p == RunPass(rs, 1, wm, results, FALSE, steps + 1)
         IN  Passes(rs, p.wm, p.results, p.changed, steps + 1)
    ELSE [results |-> results, changed |-> changed, steps |-> steps]

\* forwardChain(premises): the sorted results, the number of passes made and
\* whether the last pass fired a rule.
forwardChain(rs, premises) ==
    LET r == Passes(rs, SeedMemory(premises, << >>), << >>, TRUE, 0)
    IN  [results |-> SortByConfidence(r.results), passes |-> r.steps, changed |-> r.changed]

\* No usedRules.add(rule.id).
usedUnmarked(usedRules, id) == usedRules

\* usedRules.add(rule.id)
used(usedRules, id) == usedRules \cup {id}

\* performInferenceStep(workingMemory, usedRules), from rule i on: the working
\* memory is the one the step started with; a rule that fired is marked used.
RECURSIVE InferenceStep(_, _, _, _, _)
InferenceStep(rs, i, wm, usedRules, inferences) ==
    IF i > Len(rs) THEN [inferences |-> inferences, usedRules |-> usedRules]
    ELSE IF rs[i].id \in usedRules
         THEN InferenceStep(rs, i + 1, wm, usedRules, inferences)
    ELSE LET a == IF canApplyRule(rs[i], wm) THEN applyRule(rs[i], wm)
                  ELSE [found |-> FALSE]
         IN  IF a.found
             THEN InferenceStep(rs, i + 1, wm, used(usedRules, rs[i].id),
                                Append(inferences, a.inference))
             ELSE InferenceStep(rs, i + 1, wm, usedRules, inferences)

performInferenceStep(rs, wm, usedRules) == InferenceStep(rs, 1, wm, usedRules, << >>)

\* newInferences.forEach(inference => workingMemory.set(...))
RECURSIVE Remember(_, _)
Remember(wm, inferences) ==
    IF inferences = << >> THEN wm
    ELSE Remember(MapSet(wm, Head(inferences).conclusion, Head(inferences).truthValue),
                  Tail(inferences))

\* for (let step = 0; step < maxSteps; step++): passes counts the calls of
\* performInferenceStep, the one that found nothing included.
RECURSIVE InferSteps(_, _, _, _, _, _)
InferSteps(rs, wm, usedRules, results, step, maxSteps) ==
    IF step < maxSteps
    THEN LET s == performInferenceStep(rs, wm, usedRules)
         IN  IF Len(s.inferences) = 0
             THEN [results |-> results, passes |-> step + 1]
             ELSE InferSteps(rs, Remember(wm, s.inferences), s.usedRules,
                             results \o [k \in DOMAIN s.inferences |->
                                            [s.inferences[k] EXCEPT !.steps = step + 1]],
                             step + 1, maxSteps)
    ELSE [results |-> results, passes |-> step]

\* infer(premises, maxSteps): the sorted results and the number of inference
\* steps made.
infer(rs, premises, maxSteps) ==
    LET r == InferSteps(rs, SeedMemory(premises, << >>), {}, << >>, 0, maxSteps)
    IN  [results |-> SortByConfidence(r.results), passes |-> r.passes]

RECURSIVE TruthValuesOf(_)
TruthValuesOf(proofs) ==
    IF proofs = << >> THEN << >>
    ELSE <<Head(proofs).truthValue>> \o TruthValuesOf(Tail(proofs))

\* backwardChain's backtrack closure.  visited is the one Set of the whole
\* call: every operator takes it and hands it back with what it added.
\* A call of backtrack, as the trace of a backwardChain call keeps it:
\* expanded says whether it got past the guard on depth and visited.
Backtracked(goal, depth, expanded) == [goal |-> goal, depth |-> depth, expanded |-> expanded]

\* No visited.add(currentGoal).
enterUnmarked(visited, currentGoal) == visited

\* visited.add(currentGoal)
enter(visited, currentGoal) == visited \cup {currentGoal}

RECURSIVE backtrack(_, _, _, _, _, _)
RECURSIVE ProvePremises(_, _, _, _, _, _, _, _)
RECURSIVE TryRules(_, _, _, _, _, _, _, _)

\* for (const premise of rule.premise) { backtrack(premise, depth + 1) ... }
ProvePremises(rs, fs, premise, j, depth, visited, trace, proofs) ==
    IF j > Len(premise)
    THEN [ok |-> TRUE, proofs |-> proofs, visited |-> visited, trace |-> trace]
    ELSE LET b == backtrack(rs, fs, premise[j], depth + 1, visited, trace)
         IN  IF Len(b.results) = 0
             THEN [ok |-> FALSE, proofs |-> proofs, visited |-> b.visited,
                   trace |-> b.trace]
             ELSE ProvePremises(rs, fs, premise, j + 1, depth, b.visited, b.trace,
                                proofs \o b.results)

\* The result backtrack builds from a rule and the proofs of its premises.
Inference(rule, proofs, depth) ==
    LET combined == combineTruthValues(TruthValuesOf(proofs))
    IN  InferenceResult(rule.conclusion, rule.premise, rule.id,
                        combineRuleTruthValue(rule.truthValue, combined),
                        calculateConfidence(rule.truthValue, combined),
                        depth)

\* for (const rule of this.rules.values()) { if (rule.conclusion === goal) ... }
\* over the rules that conclude the goal, in the order of the store.
TryRules(rs, fs, candidates, goal, depth, visited, trace, localResults) ==
    IF candidates = << >>
    THEN [results |-> localResults, visited |-> visited, trace |-> trace]
    ELSE LET pr == ProvePremises(rs, fs, Head(candidates).premise, 1, depth,
                                 visited, trace, << >>)
         IN  TryRules(rs, fs, Tail(candidates), goal, depth, pr.visited, pr.trace,
                      IF pr.ok
                      THEN Append(localResults, Inference(Head(candidates), pr.proofs, depth))
                      ELSE localResults)

backtrack(rs, fs, currentGoal, depth, visited, trace) ==
    IF depth > maxInferenceDepth \/ currentGoal \in visited
    THEN [results |-> << >>, visited |-> visited,
          trace |-> Append(trace, Backtracked(currentGoal, depth, FALSE))]
    ELSE IF currentGoal \in DOMAIN fs
         THEN [results |-> <<InferenceResult(currentGoal, << >>, "fact", fs[currentGoal],
                                             fs[currentGoal].strength, depth)>>,
               visited |-> enter(visited, currentGoal),
               trace |-> Append(trace, Backtracked(currentGoal, depth, TRUE))]
    ELSE TryRules(rs, fs, SelectSeq(rs, LAMBDA r : r.conclusion = currentGoal),
                  currentGoal, depth, enter(visited, currentGoal),
                  Append(trace, Backtracked(currentGoal, depth, TRUE)), << >>)

\* backwardChain(goal)
backwardChain(rs, fs, goal) ==
    SortByConfidence(backtrack(rs, fs, goal, 0, {}, << >>).results)

NoResults == [results |-> << >>, passes |-> 0, changed |-> FALSE]

\* The record of a returned engine call.
PCall(op, premises, goal, outcome) ==
    [op |-> op, premises |-> premises, goal |-> goal, results |-> outcome.results,
     passes |-> outcome.passes, changed |-> outcome.changed]

PNew == PCall("new", << >>, "", NoResults)

\* new CognitivePLNEngine(), or an engine that was given the chain: the
\* addRule calls that built the store count among the store calls, up to
\* the last but one.
PlnInit ==
    /\ rules \in RuleStores
    /\ facts = << >>
    /\ pCalls = Min2(Len(rules), MaxStoreCalls - 1)
    /\ pLast = PNew

AddRule ==
    /\ pCalls < MaxStoreCalls
    /\ \E rule \in RulePool :
           /\ rules' = addRule(rules, rule)
           /\ pLast' = PCall("addRule", << >>, rule.id, NoResults)
    /\ pCalls' = pCalls + 1
    /\ UNCHANGED facts
    /\ PlnOnly

RemoveRule ==
    /\ pCalls < MaxStoreCalls
    /\ \E id \in RuleIds :
           /\ rules' = removeRule(rules, id)
           /\ pLast' = PCall("removeRule", << >>, id, NoResults)
    /\ pCalls' = pCalls + 1
    /\ UNCHANGED facts
    /\ PlnOnly

AddFact ==
    /\ pCalls < MaxStoreCalls
    /\ \E fact \in FactNames, tv \in FactValues :
           /\ facts' = addFact(facts, fact, tv)
           /\ pLast' = PCall("addFact", << >>, fact, NoResults)
    /\ pCalls' = pCalls + 1
    /\ UNCHANGED rules
    /\ PlnOnly

RemoveFact ==
    /\ pCalls < MaxStoreCalls
    /\ \E fact \in FactNames :
           /\ facts' = removeFact(facts, fact)
           /\ pLast' = PCall("removeFact", << >>, fact, NoResults)
    /\ pCalls' = pCalls + 1
    /\ UNCHANGED rules
    /\ PlnOnly

ForwardChain ==
    /\ \E premises \in PremiseLists :
           pLast' = PCall("forwardChain", premises, "", forwardChain(rules, premises))
    /\ UNCHANGED <<rules, facts, pCalls>>
    /\ PlnOnly

BackwardChain ==
    /\ \E goal \in Goals :
           pLast' = PCall("backwardChain", << >>, goal,
                          [NoResults EXCEPT !.results = backwardChain(rules, facts, goal)])
    /\ UNCHANGED <<rules, facts, pCalls>>
    /\ PlnOnly

PlnNext ==
    \/ AddRule \/ RemoveRule \/ AddFact \/ RemoveFact \/ ForwardChain \/ BackwardChain

(***************************************************************************)
(* infer                                                                   *)
(***************************************************************************)

\* The largest maxSteps a caller passes.
MaxSteps == 3

\* The record of a returned infer call.
ICall(premises, maxSteps, outcome) ==
    [op |-> "infer", premises |-> premises, maxSteps |-> maxSteps,
     results |-> outcome.results, passes |-> outcome.passes]

Infer ==
    /\ \E premises \in PremiseLists, maxSteps \in 0 .. MaxSteps :
           pLast' = ICall(premises, maxSteps, infer(rules, premises, maxSteps))
    /\ UNCHANGED <<rules, facts, pCalls>>
    /\ PlnOnly

InferNext == AddRule \/ RemoveRule \/ Infer

(***************************************************************************)
(* backwardChain on rule stores with cycles                                *)
(***************************************************************************)

\* Rules that depend on each other: a from b and b from a, a from itself,
\* a from b twice, and b from the fact p.
CyclePool ==
    { Rule("ab", <<"b">>, "a", Certain),
      Rule("ba", <<"a">>, "b", Certain),
      Rule("aa", <<"a">>, "a", Certain),
      Rule("abb", <<"b", "b">>, "a", Certain),
      Rule("bp", <<"p">>, "b", TruthValue(Frac(1, 2), Zero)) }

\* The store after addRule of each rule of a list.
RECURSIVE StoreOf(_)
StoreOf(list) ==
    IF list = << >> THEN << >>
    ELSE addRule(StoreOf(SubSeq(list, 1, Len(list) - 1)), list[Len(list)])

\* The chain with two more rules for its ends, stored first: c11 from
\* itself, and c10 from c11.
KnottedChain ==
    <<Rule("self", <<"c11">>, "c11", Certain), Rule("back", <<"c11">>, "c10", Certain)>>
        \o ReverseChain

CycleStores ==
    {StoreOf(list) : list \in SeqsUpTo(CyclePool, MaxCycleRules)}
        \cup {ReverseChain, KnottedChain}

CycleFacts == {<< >>, addFact(<< >>, "p", Certain), addFact(<< >>, "a", Certain)}

CycleGoals == {"a", "b", "p", "c11"}

\* A backwardChain record with the calls of backtrack it made.
Traced(call, trace) ==
    [field \in DOMAIN call \cup {"trace"} |->
        IF field = "trace" THEN trace ELSE call[field]]

CycleInit ==
    /\ rules \in CycleStores
    /\ facts \in CycleFacts
    /\ pCalls = 0
    /\ pLast = PNew

\* backwardChain(goal), once on each engine: it changes no store.
CycleBackwardChain ==
    \E goal \in CycleGoals :
        /\ pLast = PNew
        /\ LET proof == backtrack(rules, facts, goal, 0, {}, << >>)
           IN  pLast' = Traced(PCall("backwardChain", << >>, goal,
                                     [NoResults EXCEPT
                                         !.results = SortByConfidence(proof.results)]),
                               proof.trace)
        /\ UNCHANGED <<rules, facts, pCalls>>
        /\ PlnOnly

CycleNext == CycleBackwardChain

(***************************************************************************)
(* Combining truth values: the exported combineTruthValues(tv1, tv2) of    *)
(* exports/utilities.ts and the engine's combineTruthValues(list), applied *)
(* to truth values with strength and uncertainty in [0,1].                 *)
(***************************************************************************)

\* The exported function with an uncertainty that takes the product from
\* the first argument alone.
combinePairLopsided(tv1, tv2) ==
    TruthValue(RMul(tv1.strength, tv2.strength),
               RMin(RSub(RAdd(tv1.uncertainty, tv2.uncertainty),
                         RMul(tv1.uncertainty, tv1.uncertainty)),
                    One))

\* exports/utilities.ts: combineTruthValues(tv1, tv2)
combinePair(tv1, tv2) ==
    TruthValue(RMul(tv1.strength, tv2.strength),
               RMin(RSub(RAdd(tv1.uncertainty, tv2.uncertainty),
                         RMul(tv1.uncertainty, tv2.uncertainty)),
                    One))

\* Strengths and uncertainties of [0,1].
UnitValues == {Zero, Frac(1, 4), Frac(1, 2), One}

UnitTruthValues == {TruthValue(s, u) : s \in UnitValues, u \in UnitValues}

\* The record of a returned round of combinations of a, b and c: by the
\* exported function (pair) and by the engine (list).
CCall(a, b, c) ==
    [op |-> "combine", a |-> a, b |-> b, c |-> c,
     pair |-> [ab |-> combinePair(a, b),
               ba |-> combinePair(b, a),
               ab_c |-> combinePair(combinePair(a, b), c),
               a_bc |-> combinePair(a, combinePair(b, c))],
     list |-> [ab |-> combineTruthValues(<<a, b>>),
               ba |-> combineTruthValues(<<b, a>>),
               ab_c |-> combineTruthValues(<<combineTruthValues(<<a, b>>), c>>),
               a_bc |-> combineTruthValues(<<a, combineTruthValues(<<b, c>>)>>)]]

\* The functions read and write no state: a behaviour combines once.
Combine ==
    \E a \in UnitTruthValues, b \in UnitTruthValues, c \in UnitTruthValues :
        /\ pLast = PNew
        /\ pLast' = CCall(a, b, c)
        /\ UNCHANGED <<rules, facts, pCalls>>
        /\ PlnOnly

CombineNext == Combine

(***************************************************************************)
(* Pattern matcher                                                         *)
(*                                                                         *)
(* Patterns and inputs are JSON values.  A value has a kind; a scalar has  *)
(* its literal as atom; an array or an object has items, a list of entries *)
(* [key, val] in property order, the keys of an array being its indices.   *)
(***************************************************************************)

Num(literal) == [kind |-> "number", atom |-> literal, items |-> << >>]

Str(literal) == [kind |-> "string", atom |-> literal, items |-> << >>]

Field(key, val) == [key |-> key, val |-> val]

\* Object.keys of an array: "0", "1", ...
IndexKeys == <<"0", "1", "2">>

Arr(elements) ==
    [kind |-> "array", atom |-> "",
     items |-> [i \in DOMAIN elements |-> Field(IndexKeys[i], elements[i])]]

Obj(fields) == [kind |-> "object", atom |-> "", items |-> fields]

\* The property names in use, in the order Array.prototype.sort gives them.
KeyOrder == <<"a", "b", "c", "d">>

\* Patterns callers add.  The second lists its keys out of order, the third
\* is nested, the fourth holds a variable, and the last two differ only
\* below the top level.
PatternPool ==
    { Obj(<<Field("a", Num("1"))>>),
      Obj(<<Field("b", Str("x")), Field("a", Num("1"))>>),
      Obj(<<Field("a", Arr(<<Num("1"), Obj(<<Field("c", Num("2"))>>)>>))>>),
      Obj(<<Field("a", Str("$v"))>>),
      Obj(<<Field("a", Obj(<<Field("c", Num("2"))>>))>>),
      Obj(<<Field("a", Obj(<<Field("d", Num("3"))>>))>>) }

\* Inputs callers match: the patterns themselves, an input none of them
\* describes, and one that agrees with the second pattern on its first key
\* only.
MatchInputs ==
    PatternPool \cup { Obj(<<Field("b", Num("2"))>>),
                       Obj(<<Field("b", Str("x")), Field("a", Num("2"))>>) }

\* Thresholds above 0 a matcher may be configured with.
PositiveThresholds == {Frac(1, 10), Frac(1, 2), Frac(1, 1)}

MatcherConfig(confidenceThreshold, maxResults) ==
    [confidenceThreshold |-> confidenceThreshold, maxResults |-> maxResults]

MatcherConfigs ==
    { MatcherConfig(Frac(1, 2), 1), MatcherConfig(Zero, 2), MatcherConfig(Frac(1, 1), 5) }

\* Calls made on one matcher.
MaxMatcherCalls == 4

Keys(value) == {value.items[k].key : k \in DOMAIN value.items}

\* obj[key], for a key the value has
Get(value, key) ==
    value.items[CHOOSE k \in DOMAIN value.items : value.items[k].key = key].val

\* JSON.stringify(value, allowed): of an object only the properties named in
\* allowed are written, in the order of allowed, at every level; an array is
\* written whole.
RECURSIVE Stringify(_, _)
Stringify(value, allowed) ==
    IF value.kind = "object"
    THEN LET kept == SelectSeq(allowed, LAMBDA key : key \in Keys(value))
         IN  Obj([k \in DOMAIN kept |->
                     Field(kept[k], Stringify(Get(value, kept[k]), allowed))])
    ELSE IF value.kind = "array"
    THEN [value EXCEPT !.items =
             [k \in DOMAIN value.items |->
                 Field(value.items[k].key, Stringify(value.items[k].val, allowed))]]
    ELSE value

\* Object.keys(pattern).sort()
SortedKeys(pattern) == SelectSeq(KeyOrder, LAMBDA key : key \in Keys(pattern))

\* generatePatternId(pattern): the hash of the stringified pattern.  Distinct
\* strings are taken to hash to distinct ids, so the id is the string.
generatePatternId(pattern) == Stringify(pattern, SortedKeys(pattern))

\* typeof value === 'string' && value.startsWith('$')
isVariable(value) == value.kind = "string" /\ value.atom \in {"$v"}

\* value.substring(1)
getVariableName(value) == IF value.atom = "$v" THEN "v" ELSE "unknown"

IsScalar(value) == value.kind \in {"number", "string"}

\* The counters and the bindings matchRecursive works on, and its verdict.
Tally(ok, totalFields, matchedFields, bindings) ==
    [ok |-> ok, totalFields |-> totalFields, matchedFields |-> matchedFields,
     bindings |-> bindings]

\* return true, without matchedFields++
MatchedUncounted(t) == [t EXCEPT !.ok = TRUE]

\* matchedFields++; return true
Matched(t) == [t EXCEPT !.ok = TRUE, !.matchedFields = @ + 1]

\* return false
Failed(t) == [t EXCEPT !.ok = FALSE]

RECURSIVE matchRecursive(_, _, _)
RECURSIVE MatchElements(_, _, _, _)
RECURSIVE MatchKeys(_, _, _, _)

\* for (let idx = 0; idx < p.length; idx++) matchRecursive(p[idx], i[idx])
MatchElements(p, i, idx, t) ==
    IF idx > Len(p.items) THEN Matched(t)
    ELSE LET r == matchRecursive(p.items[idx].val, i.items[idx].val, t)
         IN  IF r.ok THEN MatchElements(p, i, idx + 1, r) ELSE Failed(r)

\* for (const key of pKeys) { if (!(key in iObj)) return false; ... }
MatchKeys(p, i, k, t) ==
    IF k > Len(p.items) THEN Matched(t)
    ELSE IF p.items[k].key \notin Keys(i) THEN Failed(t)
    ELSE LET r == matchRecursive(p.items[k].val, Get(i, p.items[k].key), t)
         IN  IF r.ok THEN MatchKeys(p, i, k + 1, r) ELSE Failed(r)

matchRecursive(p, i, t) ==
    LET t1 == [t EXCEPT !.totalFields = @ + 1]
    IN  IF isVariable(p)
        THEN Matched([t1 EXCEPT !.bindings = MapPut(@, getVariableName(p), i)])
        ELSE IF p.kind = "array" /\ i.kind = "array"
        THEN (IF Len(p.items) # Len(i.items) THEN Failed(t1)
              ELSE MatchElements(p, i, 1, t1))
        ELSE IF ~IsScalar(p) /\ ~IsScalar(i) THEN MatchKeys(p, i, 1, t1)
        ELSE IF IsScalar(p) /\ p = i THEN Matched(t1)
        ELSE Failed(t1)

\* calculateMatchConfidence(pattern, input, bindings): the confidence and
\* the bindings as the call leaves them
calculateMatchConfidence(pattern, input) ==
    LET t == matchRecursive(pattern, input, Tally(TRUE, 0, 0, << >>))
    IN  [confidence |-> IF t.ok THEN RDiv(Frac(t.matchedFields, 1), Frac(t.totalFields, 1))
                        ELSE Zero,
         bindings |-> t.bindings]

PatternData(id, pattern, usageCount) ==
    [id |-> id, pattern |-> pattern, usageCount |-> usageCount]

MatchResult(patternId, confidence, bindings) ==
    [patternId |-> patternId, confidence |-> confidence, bindings |-> bindings]

\* matchPattern(patternData, input); found is FALSE for null
matchPattern(cfg, patternData, input) ==
    LET c == calculateMatchConfidence(patternData.pattern, input)
    IN  IF RLess(c.confidence, cfg.confidenceThreshold) THEN [found |-> FALSE]
        ELSE [found |-> TRUE,
              result |-> MatchResult(patternData.id, c.confidence, c.bindings)]

\* results.slice(0, maxResults), maxResults >= 0
Slice(results, maxResults) == SubSeq(results, 1, Min2(Len(results), maxResults))

\* match(input) without the cut to maxResults.
matchUncut(cfg, ps, input) ==
    LET hits == SelectSeq(ps, LAMBDA d : matchPattern(cfg, d, input).found)
    IN  [results |-> SortByConfidence([k \in DOMAIN hits |->
                                          matchPattern(cfg, hits[k], input).result]),
         patterns |-> ps]

\* match(input): the results, and the patterns with the usage counts the
\* call leaves
match(cfg, ps, input) ==
    LET hits == SelectSeq(ps, LAMBDA d :
                    /\ matchPattern(cfg, d, input).found
                    /\ ~RLess(matchPattern(cfg, d, input).result.confidence,
                              cfg.confidenceThreshold))
    IN  [results |-> Slice(SortByConfidence([k \in DOMAIN hits |->
                                                matchPattern(cfg, hits[k], input).result]),
                           cfg.maxResults),
         patterns |-> [k \in DOMAIN ps |->
                          IF matchPattern(cfg, ps[k], input).found
                          THEN [ps[k] EXCEPT !.usageCount = @ + 1] ELSE ps[k]]]

\* addPattern(pattern): patterns.set(id, patternData)
addPattern(ps, pattern) ==
    LET data == PatternData(generatePatternId(pattern), pattern, 0)
    IN  IF \E k \in DOMAIN ps : ps[k].id = data.id
        THEN [k \in DOMAIN ps |-> IF ps[k].id = data.id THEN data ELSE ps[k]]
        ELSE Append(ps, data)

\* removePattern(id)
removePattern(ps, id) == SelectSeq(ps, LAMBDA d : d.id # id)

\* The record of a returned matcher call; scores lists the confidence
\* calculateMatchConfidence gives each stored pattern for the input.
MCall(op, value, results, scores) ==
    [op |-> op, value |-> value, results |-> results, scores |-> scores]

MNew == MCall("new", Num("0"), << >>, << >>)

\* new CognitivePatternMatcher(config)
MatcherInit ==
    /\ mConfig \in MatcherConfigs
    /\ patterns = << >>
    /\ mCalls = 0
    /\ mLast = MNew

AddPattern ==
    /\ mCalls < MaxMatcherCalls
    /\ \E pattern \in PatternPool :
           /\ patterns' = addPattern(patterns, pattern)
           /\ mLast' = MCall("addPattern", pattern, << >>, << >>)
    /\ mCalls' = mCalls + 1
    /\ UNCHANGED mConfig
    /\ MatcherOnly

RemovePattern ==
    /\ mCalls < MaxMatcherCalls
    /\ \E pattern \in PatternPool :
           /\ patterns' = removePattern(patterns, generatePatternId(pattern))
           /\ mLast' = MCall("removePattern", generatePatternId(pattern), << >>, << >>)
    /\ mCalls' = mCalls + 1
    /\ UNCHANGED mConfig
    /\ MatcherOnly

Match ==
    /\ mCalls < MaxMatcherCalls
    /\ \E input \in MatchInputs :
           LET m == match(mConfig, patterns, input)
           IN  /\ patterns' = m.patterns
               /\ mLast' = MCall("match", input, m.results,
                                 [k \in DOMAIN patterns |->
                                     calculateMatchConfidence(patterns[k].pattern,
                                                              input).confidence])
    /\ mCalls' = mCalls + 1
    /\ UNCHANGED mConfig
    /\ MatcherOnly

MatcherNext == AddPattern \/ RemovePattern \/ Match

(***************************************************************************)
(* Pattern matcher: fuzzyMatch                                             *)
(***************************************************************************)

\* The characters of the string literals in use.
Chars(literal) ==
    CASE literal = "x" -> <<"x">>
      [] literal = "xy" -> <<"x", "y">>
      [] literal = "$v" -> <<"$", "v">>
      [] OTHER -> << >>

\* The number a numeric literal stands for.
NumberOf(literal) ==
    CASE literal = "-1" -> 0 - 1
      [] literal = "0" -> 0
      [] literal = "1" -> 1
      [] literal = "2" -> 2
      [] literal = "3" -> 3
      [] OTHER -> 0

Min3(x, y, z) == Min2(x, Min2(y, z))

\* matrix[j][i] of stringSimilarity: the edit distance of the first i
\* characters of a and the first j characters of b.
RECURSIVE matrix(_, _, _, _)
matrix(a, b, j, i) ==
    IF j = 0 THEN i
    ELSE IF i = 0 THEN j
    ELSE Min3(matrix(a, b, j, i - 1) + 1,
              matrix(a, b, j - 1, i) + 1,
              matrix(a, b, j - 1, i - 1) + (IF a[i] = b[j] THEN 0 ELSE 1))

\* stringSimilarity(a, b)
stringSimilarity(a, b) ==
    LET maxLength == IF Len(a) > Len(b) THEN Len(a) ELSE Len(b)
    IN  IF maxLength > 0
        THEN RSub(Frac(1, 1), Frac(matrix(a, b, Len(b), Len(a)), maxLength))
        ELSE Frac(1, 1)

\* numericSimilarity(a, b)
numericSimilarity(a, b) ==
    LET maxVal == IF Abs(a) > Abs(b) THEN Abs(a) ELSE Abs(b)
        diff == Abs(a - b)
    IN  IF maxVal > 0 THEN RSub(Frac(1, 1), Frac(diff, maxVal)) ELSE Frac(1, 1)

\* The weights and the bindings fuzzyMatchRecursive works on, and the value
\* it returns.
Weights(totalWeight, matchWeight, bindings, ret) ==
    [totalWeight |-> totalWeight, matchWeight |-> matchWeight,
     bindings |-> bindings, ret |-> ret]

\* matchWeight += contribution; return contribution
Contributed(w, contribution) ==
    [w EXCEPT !.matchWeight = RAdd(@, contribution), !.ret = contribution]

RECURSIVE fuzzyMatchRecursive(_, _, _, _)
RECURSIVE FuzzyElements(_, _, _, _, _, _, _)
RECURSIVE FuzzyKeys(_, _, _, _, _, _)

\* for (let idx = 0; idx < minLength; idx++) arrayMatch += fuzzyMatchRecursive(...)
FuzzyElements(p, i, idx, minLength, share, w, arrayMatch) ==
    IF idx > minLength THEN [w EXCEPT !.ret = arrayMatch]
    ELSE LET r == fuzzyMatchRecursive(p.items[idx].val, i.items[idx].val, share, w)
         IN  FuzzyElements(p, i, idx + 1, minLength, share, r, RAdd(arrayMatch, r.ret))

\* for (const key of pKeys) { if (key in iObj) objectMatch += ... }
FuzzyKeys(p, i, k, share, w, objectMatch) ==
    IF k > Len(p.items) THEN [w EXCEPT !.ret = objectMatch]
    ELSE IF p.items[k].key \notin Keys(i) THEN FuzzyKeys(p, i, k + 1, share, w, objectMatch)
    ELSE LET r == fuzzyMatchRecursive(p.items[k].val, Get(i, p.items[k].key), share, w)
         IN  FuzzyKeys(p, i, k + 1, share, r, RAdd(objectMatch, r.ret))

fuzzyMatchRecursive(p, i, weight, w) ==
    LET w1 == [w EXCEPT !.totalWeight = RAdd(@, weight)]
    IN  IF isVariable(p)
        THEN Contributed([w1 EXCEPT !.bindings = MapPut(@, getVariableName(p), i)], weight)
        ELSE IF p.kind = "array" /\ i.kind = "array"
        THEN LET maxLength == IF Len(p.items) > Len(i.items) THEN Len(p.items)
                              ELSE Len(i.items)
                 minLength == Min2(Len(p.items), Len(i.items))
                 lengthPenalty == RDiv(Frac(maxLength - minLength, 1), Frac(maxLength, 1))
                 r == FuzzyElements(p, i, 1, minLength,
                                    RDiv(weight, Frac(maxLength, 1)), w1, Zero)
             IN  [r EXCEPT !.ret = RMul(@, RSub(Frac(1, 1), lengthPenalty))]
        ELSE IF ~IsScalar(p) /\ ~IsScalar(i)
        THEN FuzzyKeys(p, i, 1, RDiv(weight, Frac(Len(p.items), 1)), w1, Zero)
        ELSE IF p.kind = "string" /\ i.kind = "string"
        THEN Contributed(w1, RMul(stringSimilarity(Chars(p.atom), Chars(i.atom)), weight))
        ELSE IF p.kind = "number" /\ i.kind = "number"
        THEN Contributed(w1, RMul(numericSimilarity(NumberOf(p.atom), NumberOf(i.atom)),
                                  weight))
        ELSE [w1 EXCEPT !.ret = Zero]

\* return totalWeight > 0 ? matchWeight / totalWeight : 0
FuzzyConfidence(w) ==
    [confidence |-> IF RLess(Zero, w.totalWeight)
                    THEN RDiv(w.matchWeight, w.totalWeight) ELSE Zero,
     bindings |-> w.bindings]

\* calculateFuzzyMatchConfidence(pattern, input, bindings, threshold): the
\* confidence and the bindings as the call leaves them
calculateFuzzyMatchConfidence(pattern, input) ==
    FuzzyConfidence(fuzzyMatchRecursive(pattern, input, Frac(1, 1),
                                        Weights(Zero, Zero, << >>, Zero)))

FuzzyResult(patternId, confidence, bindings, truthValue) ==
    [patternId |-> patternId, confidence |-> confidence, bindings |-> bindings,
     truthValue |-> truthValue]

\* What fuzzyMatchPattern makes of the confidence c; found is FALSE for
\* null.  A stored pattern's truth value is the one addPattern gave it.
FuzzyOutcome(patternData, c, threshold) ==
    IF RLess(c.confidence, threshold) THEN [found |-> FALSE]
    ELSE [found |-> TRUE,
          result |->
              FuzzyResult(patternData.id, c.confidence, c.bindings,
                          TruthValue(RMul(Certain.strength, c.confidence),
                                     RAdd(Certain.uncertainty,
                                          RMul(RSub(Frac(1, 1), c.confidence),
                                               Frac(1, 10)))))]

\* fuzzyMatchPattern(patternData, input, threshold)
fuzzyMatchPattern(patternData, input, threshold) ==
    FuzzyOutcome(patternData,
                 calculateFuzzyMatchConfidence(patternData.pattern, input), threshold)

\* The loop, the sort and the slice of fuzzyMatch over the outcomes of
\* fuzzyMatchPattern for the stored patterns.
FuzzyCollected(cfg, ps, outcomes, threshold) ==
    LET hits == SelectSeq([k \in DOMAIN ps |-> k], LAMBDA k :
                    /\ outcomes[k].found
                    /\ ~RLess(outcomes[k].result.confidence, threshold))
    IN  [results |-> Slice(SortByConfidence([j \in DOMAIN hits |->
                                                outcomes[hits[j]].result]),
                           cfg.maxResults),
         patterns |-> [k \in DOMAIN ps |->
                          IF outcomes[k].found
                          THEN [ps[k] EXCEPT !.usageCount = @ + 1] ELSE ps[k]]]

\* fuzzyMatch(input, threshold): the results, and the patterns with the
\* usage counts the call leaves
fuzzyMatch(cfg, ps, input, threshold) ==
    FuzzyCollected(cfg, ps,
                   [k \in DOMAIN ps |-> fuzzyMatchPattern(ps[k], input, threshold)],
                   threshold)

\* Inputs callers fuzzy-match: those of match, an input whose string is one
\* character longer than a pattern's, and one whose number is the negative
\* of a pattern's.
FuzzyInputs ==
    MatchInputs \cup { Obj(<<Field("b", Str("xy")), Field("a", Num("1"))>>),
                       Obj(<<Field("a", Num("-1"))>>) }

\* Thresholds callers pass.
FuzzyThresholds == {Zero, Frac(1, 2), Frac(1, 1)}

\* The record of a returned fuzzyMatch call; scores lists the confidence
\* calculateFuzzyMatchConfidence gives each stored pattern for the input.
FCall(value, threshold, results, scores) ==
    [op |-> "fuzzyMatch", value |-> value, threshold |-> threshold,
     results |-> results, scores |-> scores]

FuzzyMatch ==
    /\ mCalls < MaxMatcherCalls
    /\ \E input \in FuzzyInputs, threshold \in FuzzyThresholds :
           LET m == fuzzyMatch(mConfig, patterns, input, threshold)
           IN  /\ patterns' = m.patterns
               /\ mLast' = FCall(input, threshold, m.results,
                                 [k \in DOMAIN patterns |->
                                     calculateFuzzyMatchConfidence(patterns[k].pattern,
                                                                   input).confidence])
    /\ mCalls' = mCalls + 1
    /\ UNCHANGED mConfig
    /\ MatcherOnly

\* Patterns stored before the fuzzyMatch call.
MaxFuzzyPatterns == 2

\* addPattern before the fuzzyMatch call of a behaviour.
FuzzyAddPattern ==
    /\ Len(patterns) < MaxFuzzyPatterns
    /\ mLast.op # "fuzzyMatch"
    /\ AddPattern

\* The one fuzzyMatch call of a behaviour.
FuzzyMatchOnce ==
    /\ mLast.op # "fuzzyMatch"
    /\ FuzzyMatch

FuzzyNext == FuzzyAddPattern \/ FuzzyMatchOnce

(***************************************************************************)
(* Hypergraph store: query and traverse.  The two read calls are checked   *)
(* on graphs of three nodes that carry all fields of a HypergraphNode.     *)
(***************************************************************************)

WalkIds == {"A", "B", "C"}

\* The order in which the nodes were added: Map iteration order.
WalkOrder == <<"A", "B", "C">>

\* An id no graph stores.
UnknownId == "Z"

\* node.metadata[key] of a key the node does not have
Undefined == "undefined"

AttentionValue(sti, lti) ==
    [shortTermImportance |-> sti, longTermImportance |-> lti, vlti |-> FALSE]

\* The fields besides the lists that the node of an id is added with.
NodeFields(id) ==
    CASE id = "A" -> [type |-> "concept",
                      truthValue |-> TruthValue(Frac(1, 2), Zero),
                      attentionValue |-> AttentionValue(Zero, Frac(1, 1)),
                      metadata |-> [kind |-> "x"]]
      [] id = "B" -> [type |-> "link",
                      truthValue |-> TruthValue(Zero, Frac(1, 2)),
                      attentionValue |-> AttentionValue(Frac(0 - 1, 1), Zero),
                      metadata |-> [kind |-> ""]]
      [] OTHER    -> [type |-> "concept",
                      truthValue |-> TruthValue(Frac(1, 1), Frac(1, 1)),
                      attentionValue |-> AttentionValue(Frac(1, 1), Frac(2, 1)),
                      metadata |-> << >>]

HypergraphNode(id, out, inc) ==
    [id |-> id, type |-> NodeFields(id).type,
     truthValue |-> NodeFields(id).truthValue,
     attentionValue |-> NodeFields(id).attentionValue,
     outgoing |-> out, incoming |-> inc,
     metadata |-> NodeFields(id).metadata]

\* A field of a pattern object is there.
Present(object, field) == field \in DOMAIN object

\* JavaScript truthiness of a string, a number and a boolean.
TruthyString(s) == s # ""

TruthyNumber(x) == ~IsNaN(x) /\ x.n # 0

TruthyFlag(b) == b

\* if (bounds.min && value < bounds.min) return false, and its max twin
BelowMin(bounds, min, value) ==
    Present(bounds, min) /\ TruthyNumber(bounds[min]) /\ RLess(value, bounds[min])

AboveMax(bounds, max, value) ==
    Present(bounds, max) /\ TruthyNumber(bounds[max]) /\ RLess(bounds[max], value)

MetadataOf(node, key) ==
    IF key \in DOMAIN node.metadata THEN node.metadata[key] ELSE Undefined

Degree(list) == Frac(Len(list), 1)

\* matchesPattern of the hypergraph: every test that returns false.
nodeMatchesPattern(node, pattern) ==
    /\ ~(Present(pattern, "type") /\ TruthyString(pattern.type)
           /\ node.type # pattern.type)
    /\ Present(pattern, "truthValue") =>
          /\ ~BelowMin(pattern.truthValue, "minStrength", node.truthValue.strength)
          /\ ~AboveMax(pattern.truthValue, "maxStrength", node.truthValue.strength)
          /\ ~BelowMin(pattern.truthValue, "minUncertainty", node.truthValue.uncertainty)
          /\ ~AboveMax(pattern.truthValue, "maxUncertainty", node.truthValue.uncertainty)
    /\ Present(pattern, "attentionValue") =>
          /\ ~BelowMin(pattern.attentionValue, "minSTI",
                       node.attentionValue.shortTermImportance)
          /\ ~AboveMax(pattern.attentionValue, "maxSTI",
                       node.attentionValue.shortTermImportance)
          /\ ~BelowMin(pattern.attentionValue, "minLTI",
                       node.attentionValue.longTermImportance)
          /\ ~AboveMax(pattern.attentionValue, "maxLTI",
                       node.attentionValue.longTermImportance)
    /\ Present(pattern, "metadata") =>
          \A key \in DOMAIN pattern.metadata :
              MetadataOf(node, key) = pattern.metadata[key]
    /\ ~(Present(pattern, "hasIncoming") /\ TruthyFlag(pattern.hasIncoming)
           /\ Len(node.incoming) = 0)
    /\ ~(Present(pattern, "hasOutgoing") /\ TruthyFlag(pattern.hasOutgoing)
           /\ Len(node.outgoing) = 0)
    /\ ~BelowMin(pattern, "minIncoming", Degree(node.incoming))
    /\ ~AboveMax(pattern, "maxIncoming", Degree(node.incoming))
    /\ ~BelowMin(pattern, "minOutgoing", Degree(node.outgoing))
    /\ ~AboveMax(pattern, "maxOutgoing", Degree(node.outgoing))

\* query: the stored nodes, in Map order, that matchesPattern accepts.
query(g, pattern) ==
    SelectSeq(StoredOf(g, WalkOrder), LAMBDA node : nodeMatchesPattern(node, pattern))

\* What a traverse call has gathered: the visited set, the result list and,
\* for each node of the result, the depth at which dfs reached it.
Gathered(visited, result, depths) ==
    [visited |-> visited, result |-> result, depths |-> depths]

visitUnmarked(acc, node, depth) ==
    Gathered(acc.visited, Append(acc.result, node), Append(acc.depths, depth))

\* visited.add(nodeId); result.push(node)
visit(acc, node, depth) ==
    Gathered(acc.visited \cup {node.id}, Append(acc.result, node),
             Append(acc.depths, depth))

RECURSIVE dfs(_, _, _, _, _)
RECURSIVE dfsOutgoing(_, _, _, _, _)

\* for (const outgoingId of node.outgoing) dfs(outgoingId, depth + 1)
dfsOutgoing(g, list, depth, maxDepth, acc) ==
    IF list = << >> THEN acc
    ELSE dfsOutgoing(g, Tail(list), depth, maxDepth,
                     dfs(g, Head(list), depth, maxDepth, acc))

dfs(g, nodeId, depth, maxDepth, acc) ==
    IF depth > maxDepth \/ nodeId \in acc.visited THEN acc
    ELSE IF nodeId \notin DOMAIN g THEN acc
    ELSE dfsOutgoing(g, g[nodeId].outgoing, depth + 1, maxDepth,
                     visit(acc, g[nodeId], depth))

traverse(g, startId, maxDepth) ==
    dfs(g, startId, 0, maxDepth, Gathered({}, << >>, << >>))

\* Lists of distinct ids: the outgoing list addLink builds never repeats one.
DistinctLists(S) ==
    {list \in SeqsUpTo(S, Cardinality(S)) :
        \A i, j \in DOMAIN list : list[i] = list[j] => i = j}

\* The incoming list addLink builds for id, given everyone's outgoing list.
IncomingFrom(out, id) == SelectSeq(WalkOrder, LAMBDA n : Includes(out[n], id))

\* The graph after addNode of the stored ids and addLink of the listed
\* links; a link to an id that is not stored arrived in the node's list.
WalkGraph(stored, out) ==
    [id \in stored |-> HypergraphNode(id, out[id], IncomingFrom(out, id))]

QueryPatterns ==
    { << >>,
      [type |-> "concept"],
      [type |-> ""],
      [type |-> "link", hasOutgoing |-> TRUE],
      [truthValue |-> [minStrength |-> Frac(1, 2)]],
      [truthValue |-> [maxStrength |-> Zero]],
      [truthValue |-> [minUncertainty |-> Frac(1, 2), maxUncertainty |-> Frac(1, 2)]],
      [attentionValue |-> [minSTI |-> Zero]],
      [attentionValue |-> [maxSTI |-> Frac(1, 1), minLTI |-> Frac(1, 1)]],
      [attentionValue |-> [maxLTI |-> Zero]],
      [metadata |-> [kind |-> "x"]],
      [metadata |-> [kind |-> ""]],
      [hasIncoming |-> TRUE],
      [hasIncoming |-> FALSE],
      [hasOutgoing |-> FALSE],
      [minIncoming |-> Frac(1, 1), maxIncoming |-> Frac(1, 1)],
      [maxIncoming |-> Zero],
      [minOutgoing |-> Frac(2, 1)],
      [maxOutgoing |-> Zero] }

TraverseDepths == (0 - 1) .. Cardinality(WalkIds)

\* The record of a returned read call.
WCall(op, pattern, startId, maxDepth, result, depths) ==
    [op |-> op, pattern |-> pattern, startId |-> startId,
     maxDepth |-> maxDepth, result |-> result, depths |-> depths]

WalkInit ==
    /\ \E stored \in {WalkIds, {"A", "B"}}, out \in [WalkIds -> DistinctLists(WalkIds)] :
           nodes = WalkGraph(stored, out)
    /\ gLast = GCall("new", "a", "a", TRUE, FALSE)
    /\ given = NoHeld
    /\ wLast = NoWalk

\* The read calls leave the store as it is, so a behaviour makes one of them
\* on each graph.
Query ==
    \E pattern \in QueryPatterns :
        /\ wLast = NoWalk
        /\ wLast' = WCall("query", pattern, UnknownId, 0, query(nodes, pattern), << >>)
        /\ UNCHANGED <<nodes, gLast, given>>
        /\ StoreOnly

Traverse ==
    \E startId \in WalkIds \cup {UnknownId}, maxDepth \in TraverseDepths :
        /\ wLast = NoWalk
        /\ LET walk == traverse(nodes, startId, maxDepth)
           IN  wLast' = WCall("traverse", << >>, startId, maxDepth,
                              walk.result, walk.depths)
        /\ UNCHANGED <<nodes, gLast, given>>
        /\ StoreOnly

WalkNext == Query \/ Traverse

(***************************************************************************)
(* traverse on graphs of four nodes                                        *)
(***************************************************************************)

ReachIds == WalkIds \cup {"D"}

ReachOrder == WalkOrder \o <<"D">>

\* Links of one node in the four-node graphs.
MaxOut == 2

\* The graph after addNode of the four ids and addLink of the listed links.
ReachGraph(out) ==
    [id \in ReachIds |->
        HypergraphNode(id, out[id],
                       SelectSeq(ReachOrder, LAMBDA n : Includes(out[n], id)))]

ReachInit ==
    /\ \E out \in [ReachIds -> {list \in DistinctLists(ReachIds) : Len(list) <= MaxOut}] :
           nodes = ReachGraph(out)
    /\ gLast = GCall("new", "a", "a", TRUE, FALSE)
    /\ given = NoHeld
    /\ wLast = NoWalk

\* traverse from A, once on each graph.
ReachTraverse ==
    \E maxDepth \in 1 .. Cardinality(WalkIds) :
        /\ wLast = NoWalk
        /\ LET walk == traverse(nodes, "A", maxDepth)
           IN  wLast' = WCall("traverse", << >>, "A", maxDepth,
                              walk.result, walk.depths)
        /\ UNCHANGED <<nodes, gLast, given>>
        /\ StoreOnly

ReachNext == ReachTraverse

(***************************************************************************)
(* spreadActivation                                                        *)
(*                                                                         *)
(* The closure spread(nodeId, currentActivation, depth) works on the Map   *)
(* activations and the Set visited.  arrivals is a ghost: every call of    *)
(* spread in call order, with what it carried and whether it recorded.     *)
(***************************************************************************)

\* currentActivation < 0.01
Epsilon == Frac(1, 100)

\* const decayFactor = 0.7
decayFactor == Tenths(7)

Spreading(activations, visited, arrivals) ==
    [activations |-> activations, visited |-> visited, arrivals |-> arrivals]

Arrival(nodeId, activation, depth, recorded) ==
    [id |-> nodeId, activation |-> activation, depth |-> depth, recorded |-> recorded]

\* (activations.get(nodeId) || 0)
ActivationOr0(activations, nodeId) ==
    IF nodeId \in DOMAIN activations /\ TruthyNumber(activations[nodeId])
    THEN activations[nodeId] ELSE Zero

\* activations.set(...) without visited.add(nodeId)
recordUnmarked(acc, nodeId, currentActivation, depth) ==
    Spreading(MapPut(acc.activations, nodeId,
                     RAdd(ActivationOr0(acc.activations, nodeId), currentActivation)),
              acc.visited,
              Append(acc.arrivals, Arrival(nodeId, currentActivation, depth, TRUE)))

\* visited.add(nodeId); activations.set(nodeId, (activations.get(nodeId) || 0)
\* + currentActivation)
record(acc, nodeId, currentActivation, depth) ==
    Spreading(MapPut(acc.activations, nodeId,
                     RAdd(ActivationOr0(acc.activations, nodeId), currentActivation)),
              acc.visited \cup {nodeId},
              Append(acc.arrivals, Arrival(nodeId, currentActivation, depth, TRUE)))

\* a call of spread that returns at once
turnedAway(acc, nodeId, currentActivation, depth) ==
    [acc EXCEPT !.arrivals = Append(@, Arrival(nodeId, currentActivation, depth, FALSE))]

RECURSIVE spread(_, _, _, _, _, _)
RECURSIVE spreadOver(_, _, _, _, _, _)

\* for (const id of list) spread(id, spreadActivation, depth + 1)
spreadOver(g, list, currentActivation, depth, maxDepth, acc) ==
    IF list = << >> THEN acc
    ELSE spreadOver(g, Tail(list), currentActivation, depth, maxDepth,
                    spread(g, Head(list), currentActivation, depth, maxDepth, acc))

spread(g, nodeId, currentActivation, depth, maxDepth, acc) ==
    IF \/ depth > maxDepth
       \/ nodeId \in acc.visited
       \/ RLess(currentActivation, Epsilon)
    THEN turnedAway(acc, nodeId, currentActivation, depth)
    ELSE IF nodeId \notin DOMAIN g
    THEN turnedAway(acc, nodeId, currentActivation, depth)
    ELSE LET next == RMul(currentActivation, decayFactor)
         IN  spreadOver(g, g[nodeId].incoming, next, depth + 1, maxDepth,
                 spreadOver(g, g[nodeId].outgoing, next, depth + 1, maxDepth,
                     record(acc, nodeId, currentActivation, depth)))

\* spreadActivation(startId, activation, maxDepth)
spreadActivation(g, startId, activation, maxDepth) ==
    spread(g, startId, activation, 0, maxDepth, Spreading(<< >>, {}, << >>))

\* Activations to spread: none, the epsilon itself, one that falls below
\* the epsilon after two hops, a full one, and NaN.
SpreadActivations == {Zero, Epsilon, Frac(2, 100), One, NaN}

SpreadDepths == (0 - 1) .. (Cardinality(WalkIds) - 1)

\* The record of a returned spreadActivation call.
SCall(startId, activation, maxDepth, result, arrivals) ==
    [op |-> "spreadActivation", startId |-> startId, activation |-> activation,
     maxDepth |-> maxDepth, result |-> result, arrivals |-> arrivals]

SpreadActivation ==
    \E startId \in {"A", "C", UnknownId}, activation \in SpreadActivations,
       maxDepth \in SpreadDepths :
        /\ wLast = NoWalk
        /\ LET spreading == spreadActivation(nodes, startId, activation, maxDepth)
           IN  wLast' = SCall(startId, activation, maxDepth,
                              spreading.activations, spreading.arrivals)
        /\ UNCHANGED <<nodes, gLast, given>>
        /\ StoreOnly

SpreadNext == SpreadActivation

(***************************************************************************)
(* Claims about the hypergraph store                                       *)
(***************************************************************************)

\* b is listed in a.outgoing / a is listed in b.incoming, for stored a and b.
ListsOutgoing(a, b) == Includes(nodes[a].outgoing, b)

ListsIncoming(b, a) == Includes(nodes[b].incoming, a)

\* C1: in every reachable state, for all stored nodes a and b, b is in
\* a.outgoing if and only if a is in b.incoming.
C1_AdjacencyConsistent ==
    \A a \in DOMAIN nodes, b \in DOMAIN nodes :
        ListsOutgoing(a, b) <=> ListsIncoming(b, a)

\* C2: after removeNode(id) has returned, no remaining node has id in its
\* outgoing list or in its incoming list.
C2_RemoveNodeLeavesNoReference ==
    gLast.op = "removeNode" =>
        \A n \in DOMAIN nodes :
            /\ ~Includes(nodes[n].outgoing, gLast.from)
            /\ ~Includes(nodes[n].incoming, gLast.from)

\* node id is among the nodes a neighbour lookup returned
Among(id, result) == \E i \in DOMAIN result : result[i].id = id

\* C3: for stored nodes a and b (a = b included): after addLink(a,b), b is
\* among getOutgoing(a) and a is among getIncoming(b); after a following
\* removeLink(a,b), b is not among getOutgoing(a) and a is not among
\* getIncoming(b).
C3_LinkThenUnlink ==
    /\ (gLast.op = "addLink" /\ gLast.ok) =>
           /\ Among(gLast.to, getOutgoing(nodes, gLast.from))
           /\ Among(gLast.from, getIncoming(nodes, gLast.to))
    /\ (gLast.op = "removeLink" /\ gLast.follows) =>
           /\ gLast.from \in DOMAIN nodes
           /\ gLast.to \in DOMAIN nodes
           /\ ~Among(gLast.to, getOutgoing(nodes, gLast.from))
           /\ ~Among(gLast.from, getIncoming(nodes, gLast.to))

\* A removeLink(a,a) that followed addLink(a,a) on a node that arrived with
\* a list of its own.
C3_Witness ==
    /\ gLast.op = "removeLink"
    /\ gLast.follows
    /\ gLast.from = gLast.to
    /\ \E n \in DOMAIN nodes : n # gLast.from /\ nodes[n].outgoing # <<>>

\* C19: addLink(from, to) raises an error whenever from or to is not a
\* stored node, and then no node's outgoing or incoming list and no part of
\* the node map is changed.
C19_AddLinkThrowsChangesNothing ==
    [][ (gLast'.op = "addLink" /\ (gLast'.from \notin DOMAIN nodes
                                    \/ gLast'.to \notin DOMAIN nodes))
            => (~gLast'.ok /\ nodes' = nodes) ]_vars

\* An addLink that threw on a graph holding a node with a non-empty list,
\* one endpoint stored and the other not.
C19_Witness ==
    /\ gLast.op = "addLink"
    /\ ~gLast.ok
    /\ gLast.from \in DOMAIN nodes
    /\ gLast.to \notin DOMAIN nodes
    /\ nodes[gLast.from].outgoing # << >>

\* The constraints of a pattern read as the specification states them: a
\* constraint that is present holds of the node, whatever its value.
AtLeast(bounds, min, value) == Present(bounds, min) => RLeq(bounds[min], value)

AtMost(bounds, max, value) == Present(bounds, max) => RLeq(value, bounds[max])

Satisfies(node, pattern) ==
    /\ Present(pattern, "type") => node.type = pattern.type
    /\ Present(pattern, "truthValue") =>
          /\ AtLeast(pattern.truthValue, "minStrength", node.truthValue.strength)
          /\ AtMost(pattern.truthValue, "maxStrength", node.truthValue.strength)
          /\ AtLeast(pattern.truthValue, "minUncertainty", node.truthValue.uncertainty)
          /\ AtMost(pattern.truthValue, "maxUncertainty", node.truthValue.uncertainty)
    /\ Present(pattern, "attentionValue") =>
          /\ AtLeast(pattern.attentionValue, "minSTI",
                     node.attentionValue.shortTermImportance)
          /\ AtMost(pattern.attentionValue, "maxSTI",
                    node.attentionValue.shortTermImportance)
          /\ AtLeast(pattern.attentionValue, "minLTI",
                     node.attentionValue.longTermImportance)
          /\ AtMost(pattern.attentionValue, "maxLTI",
                    node.attentionValue.longTermImportance)
    /\ Present(pattern, "metadata") =>
          \A key \in DOMAIN pattern.metadata :
              /\ key \in DOMAIN node.metadata
              /\ node.metadata[key] = pattern.metadata[key]
    /\ Present(pattern, "hasIncoming") =>
          (pattern.hasIncoming <=> node.incoming # << >>)
    /\ Present(pattern, "hasOutgoing") =>
          (pattern.hasOutgoing <=> node.outgoing # << >>)
    /\ AtLeast(pattern, "minIncoming", Degree(node.incoming))
    /\ AtMost(pattern, "maxIncoming", Degree(node.incoming))
    /\ AtLeast(pattern, "minOutgoing", Degree(node.outgoing))
    /\ AtMost(pattern, "maxOutgoing", Degree(node.outgoing))

\* The elements of a list.
Range(list) == {list[i] : i \in DOMAIN list}

NoDuplicates(list) == \A i, j \in DOMAIN list : list[i] = list[j] => i = j

\* C17: query(pattern) returns exactly the stored nodes that satisfy every
\* constraint present in the pattern, for every value a present constraint
\* can take (a bound of 0 and a has-edges flag of false included); the empty
\* pattern returns every node.
C17_QueryReturnsExactlyTheMatches ==
    wLast.op = "query" =>
        /\ NoDuplicates(wLast.result)
        /\ Range(wLast.result) =
               {nodes[n] : n \in {m \in DOMAIN nodes : Satisfies(nodes[m], wLast.pattern)}}
        /\ wLast.pattern = << >> =>
               Range(wLast.result) = {nodes[n] : n \in DOMAIN nodes}

\* The stored nodes within k hops of the start along outgoing edges.
RECURSIVE Within(_, _, _)
Within(g, startId, k) ==
    IF k < 0 \/ startId \notin DOMAIN g THEN {}
    ELSE IF k = 0 THEN {startId}
    ELSE LET near == Within(g, startId, k - 1)
         IN  near \cup {m \in DOMAIN g : \E n \in near : Includes(g[n].outgoing, m)}

\* The position of the node from which a depth-first walk reached the node
\* at position j: the latest earlier node one level up.
ParentOf(depths, j) ==
    CHOOSE i \in 1..(j - 1) :
        /\ depths[i] = depths[j] - 1
        /\ \A k \in (i + 1)..(j - 1) : depths[k] # depths[j] - 1

\* The ids of a list that are stored and not among the first j results.
Unvisited(g, list, result, j) ==
    SelectSeq(list, LAMBDA id : id \in DOMAIN g
                                /\ \A i \in 1..j : result[i].id # id)

\* result with its depths is a depth-first visitation along outgoing edges:
\* it starts at depth 0, never goes deeper than maxDepth, every later node
\* is listed by its parent, and the walk descends whenever it can, into the
\* first listed node not yet visited.
DepthFirst(g, result, depths, maxDepth) ==
    /\ Len(depths) = Len(result)
    /\ result # << >> => depths[1] = 0
    /\ \A j \in 2..Len(result) :
          /\ depths[j] \in 1..maxDepth
          /\ depths[j] <= depths[j - 1] + 1
          /\ Includes(result[ParentOf(depths, j)].outgoing, result[j].id)
    /\ \A j \in 1..Len(result) :
          LET next == Unvisited(g, result[j].outgoing, result, j)
          IN  (depths[j] < maxDepth /\ next # << >>) =>
                  /\ j < Len(result)
                  /\ result[j + 1].id = next[1]
                  /\ depths[j + 1] = depths[j] + 1

Ids(result) == [i \in DOMAIN result |-> result[i].id]

\* The chain A -> B -> C.
IsChain(g) ==
    /\ DOMAIN g = WalkIds
    /\ g["A"].outgoing = <<"B">>
    /\ g["B"].outgoing = <<"C">>
    /\ g["C"].outgoing = << >>

\* C18: traverse(startId, maxDepth) on any graph (cycles included) returns
\* a list without duplicates whose first element is the start node, holding
\* only stored nodes reachable from the start along outgoing edges within
\* maxDepth hops, in depth-first visitation order; on the chain A->B->C
\* traverse('A',2) is [A,B,C] and traverse('A',0) is [A]; an unknown start
\* id gives the empty list.
C18_TraverseDepthFirst ==
    wLast.op = "traverse" =>
        /\ NoDuplicates(Ids(wLast.result))
        /\ (wLast.startId \in DOMAIN nodes /\ wLast.maxDepth >= 0) =>
               /\ wLast.result # << >>
               /\ wLast.result[1] = nodes[wLast.startId]
        /\ \A i \in DOMAIN wLast.result :
               /\ wLast.result[i].id \in Within(nodes, wLast.startId, wLast.maxDepth)
               /\ wLast.result[i] = nodes[wLast.result[i].id]
        /\ DepthFirst(nodes, wLast.result, wLast.depths, wLast.maxDepth)
        /\ (IsChain(nodes) /\ wLast.startId = "A" /\ wLast.maxDepth = 2) =>
               Ids(wLast.result) = <<"A", "B", "C">>
        /\ (IsChain(nodes) /\ wLast.startId = "A" /\ wLast.maxDepth = 0) =>
               Ids(wLast.result) = <<"A">>
        /\ wLast.startId \notin DOMAIN nodes => wLast.result = << >>

\* A traverse over a cycle A -> B -> A that went on to C from B.
C18_Witness ==
    /\ wLast.op = "traverse"
    /\ wLast.startId = "A"
    /\ nodes["A"].outgoing = <<"B">>
    /\ nodes["B"].outgoing = <<"A", "C">>
    /\ Ids(wLast.result) = <<"A", "B", "C">>

\* C20: addNode(node) stores a defensive copy: a later addLink, removeLink
\* or removeNode never changes the caller's node value (its outgoing and
\* incoming lists included), and a later change the caller makes to its
\* own node value never changes the stored node.
C20_DefensiveCopy ==
    [][ /\ (given.kept /\ gLast'.op \in {"addLink", "removeLink", "removeNode"})
            => (given'.outgoing = given.outgoing /\ given'.incoming = given.incoming)
        /\ (gLast'.op \in CallerOps) => nodes' = nodes ]_vars



(***************************************************************************)
(* Claims about the attention allocator                                    *)
(***************************************************************************)

\* C4: starting from shares that sum to at most the budget, after any
\* sequence of allocate and deallocate calls with non-negative amounts the
\* sum of all allocations is at most budget + emergencyAllocation.
C4_TotalWithinBudgetPlusEmergency ==
    RLeq(getTotalAllocated(allocations), RAdd(budget, config.emergencyAllocation))

\* An allocate that had to make room has returned true and the total is now
\* above the budget: part of the emergency pool is in use.
C4_Witness ==
    /\ aLast.op = "allocate"
    /\ aLast.ok
    /\ aLast.shrunk
    /\ RLess(budget, getTotalAllocated(allocations))

\* C5: when allocate(module, amount) returns false, the total plus amount
\* exceeded the budget and available + emergencyAllocation was less than
\* amount, and the budget and every module's allocation (the absence of an
\* entry included) are what they were before the call.
C5_FailedAllocateChangesNothing ==
    [][(aLast'.op = "allocate" /\ ~aLast'.ok) =>
          /\ OverBudget(budget, allocations, aLast'.amount)
          /\ RLess(RAdd(getAvailable(budget, allocations), config.emergencyAllocation),
                   aLast'.amount)
          /\ allocations' = allocations
          /\ budget' = budget]_vars

\* allocate has returned false for a module that has no entry, in an
\* allocator that holds other entries.
C5_Witness ==
    /\ aLast.op = "allocate"
    /\ ~aLast.ok
    /\ ~Has(allocations, aLast.module)
    /\ allocations # << >>

\* C6: whenever allocate(module, amount) returns true, getAllocation(module)
\* afterwards is its value before the call plus amount, also when the call
\* shrank allocations to make room; and from the reference configuration
\* (budget 1.0, perception 0.3, reasoning 0.4, memory 0.3, emergency pool
\* 0.1) allocate('perception', 0.1) returns true and leaves perception 0.4.
C6_AllocateAddsAmount ==
    [][/\ (aLast'.op = "allocate" /\ aLast'.ok) =>
              getAllocation(allocations', aLast'.module)
                  = RAdd(getAllocation(allocations, aLast'.module), aLast'.amount)
       /\ ( /\ config = ReferenceConfig
            /\ aCalls = 0
            /\ aCalls' = 1
            /\ aLast'.op = "allocate"
            /\ aLast'.module = "perception"
            /\ aLast'.amount = Tenths(1) ) =>
              /\ aLast'.ok
              /\ getAllocation(allocations', "perception") = Tenths(4)]_vars

\* The reference scenario: the first call on the reference configuration was
\* allocate('perception', 0.1); it made room by shrinking, perception itself
\* included, and returned true.
C6_Witness ==
    /\ config = ReferenceConfig
    /\ aCalls = 1
    /\ aLast = ACall("allocate", "perception", Tenths(1), TRUE, TRUE, NoMap, NoMap)
    /\ getAllocation(allocations, "reasoning") = Frac(36, 100)

\* C7: simulateCompetition(demands): if the total demand is at most the
\* budget every module is granted exactly its demand; if the total demand
\* exceeds the budget the granted amounts sum to at most the budget and no
\* module is granted more than its demand.
C7_CompetitionGrants ==
    aLast.op = "simulateCompetition" =>
        LET demands == aLast.demands
            granted == aLast.granted
        IN  /\ DOMAIN granted = DOMAIN demands
            /\ RLeq(SumValues(demands), budget) =>
                   \A m \in DOMAIN demands : granted[m] = demands[m]
            /\ RLess(budget, SumValues(demands)) =>
                   /\ RLeq(SumValues(granted), budget)
                   /\ \A m \in DOMAIN demands : RLeq(granted[m], demands[m])

\* The entries of the modules other than one.
OtherEntries(allocs, moduleId) == SelectSeq(allocs, LAMBDA e : e.id # moduleId)

\* C21: deallocate(module, amount) returns false and changes nothing when
\* the module's current allocation (0 without an entry) is less than amount;
\* otherwise it returns true, lowers that module's allocation by exactly
\* amount and leaves the budget and every other module's allocation as
\* they were.
C21_Deallocate ==
    [][aLast'.op = "deallocate" =>
          LET current == getAllocation(allocations, aLast'.module)
          IN  /\ aLast'.ok <=> ~RLess(current, aLast'.amount)
              /\ ~aLast'.ok => allocations' = allocations
              /\ aLast'.ok =>
                    /\ getAllocation(allocations', aLast'.module)
                           = RSub(current, aLast'.amount)
                    /\ OtherEntries(allocations', aLast'.module)
                           = OtherEntries(allocations, aLast'.module)
              /\ budget' = budget]_vars

\* deallocate has taken a module's whole allocation, a positive amount, in
\* an allocator that holds other modules with allocations of their own.
C21_Witness ==
    /\ aLast.op = "deallocate"
    /\ aLast.ok
    /\ aLast.amount = Tenths(3)
    /\ Has(allocations, aLast.module)
    /\ getAllocation(allocations, aLast.module) = Zero
    /\ \E e \in Range(OtherEntries(allocations, aLast.module)) : e.val # Zero


\* Every allocation of the second map is the allocation of the first, in
\* the same place, multiplied by factor.
ScaledBy(before, after, factor) ==
    /\ Len(after) = Len(before)
    /\ \A i \in DOMAIN before :
          after[i] = Entry(before[i].id, RMul(before[i].val, factor))

\* C22: after redistribute() has returned the sum of all allocations is at
\* most the budget, from every allocator state with non-negative allocations
\* (and budget) and a decay rate in (0,1]: when the sum exceeded the budget
\* every allocation has been scaled by budget/sum, and otherwise decay
\* followed by the focus boost has not pushed the sum above the budget.
C22_RedistributeWithinBudget ==
    aLast.op = "redistribute" =>
        /\ RLeq(getTotalAllocated(allocations), budget)
        /\ aLast.shrunk <=> RLess(budget, getTotalAllocated(aLast.before))
        /\ aLast.shrunk =>
               ScaledBy(aLast.before, allocations,
                        RDiv(budget, getTotalAllocated(aLast.before)))

\* A redistribute without decay (no time has passed) on an allocator within
\* its budget has boosted a focused module by less than 5%: the boost was
\* cut to a tenth of what was available.
C22_Witness ==
    /\ aLast.op = "redistribute"
    /\ ~aLast.shrunk
    /\ aLast.amount = One
    /\ \E i \in DOMAIN allocations :
          /\ RLess(aLast.before[i].val, allocations[i].val)
          /\ RLess(allocations[i].val, RMul(aLast.before[i].val, Frac(105, 100)))

\* C23: updateBudget(newBudget) with 0 <= newBudget < old budget multiplies
\* every module's allocation by newBudget/oldBudget, so that a total of at
\* most the old budget becomes a total of at most the new budget;
\* updateBudget with newBudget >= old budget leaves every allocation as it
\* was.
C23_UpdateBudget ==
    aLast.op = "updateBudget" =>
        /\ budget = aLast.amount
        /\ (RLeq(Zero, aLast.amount) /\ RLess(aLast.amount, aLast.oldBudget)) =>
               /\ ScaledBy(aLast.before, allocations,
                           RDiv(aLast.amount, aLast.oldBudget))
               /\ RLeq(getTotalAllocated(aLast.before), aLast.oldBudget) =>
                      RLeq(getTotalAllocated(allocations), budget)
        /\ RLeq(aLast.oldBudget, aLast.amount) => allocations = aLast.before

\* updateBudget has halved the budget of an allocator that used all of it.
C23_Witness ==
    /\ aLast.op = "updateBudget"
    /\ aLast.oldBudget = Tenths(10)
    /\ aLast.amount = Tenths(5)
    /\ getTotalAllocated(aLast.before) = Tenths(10)
    /\ getTotalAllocated(allocations) = Tenths(5)

\* C38: in every allocator state reachable from a configuration with
\* non-negative budget and shares by any sequence of allocate and deallocate
\* with non-negative amounts, redistribute, and updateBudget with
\* non-negative budgets, every module's allocation is greater than or equal
\* to 0.
C38_AllocationsNonNegative ==
    \A i \in DOMAIN allocations : RLeq(Zero, allocations[i].val)

\* After an earlier call, a deallocate of all a module had has returned
\* true and left the module at exactly 0.
C38_Witness ==
    /\ aLast.op = "deallocate"
    /\ aLast.ok
    /\ RLess(Zero, aLast.amount)
    /\ aCalls = MaxBudgetCalls
    /\ GetOrZero(allocations, aLast.module) = Zero
    /\ Has(allocations, aLast.module)


\* C32: traverse(startId, maxDepth) returns every node whose shortest
\* outgoing-edge distance from the start node is at most maxDepth, for
\* every graph and every order of the outgoing lists (including graphs
\* where a node is reachable both by a short path and by a longer path
\* that the depth-first walk follows first).
C32_TraverseReachesAllWithin ==
    (wLast.op = "traverse") =>
        Within(nodes, wLast.startId, wLast.maxDepth) \subseteq Range(Ids(wLast.result))

(***************************************************************************)
(* Claims about spreadActivation                                           *)
(***************************************************************************)

\* a * 0.7^k
RECURSIVE Decayed(_, _)
Decayed(a, k) == IF k = 0 THEN a ELSE RMul(Decayed(a, k - 1), decayFactor)

\* The position of the first arrival at a node.
FirstArrival(arrivals, id) ==
    CHOOSE i \in DOMAIN arrivals :
        /\ arrivals[i].id = id
        /\ \A j \in 1 .. (i - 1) : arrivals[j].id # id

\* An arrival the spread does not turn away for its depth or its strength.
InReach(arrival, maxDepth) ==
    arrival.depth <= maxDepth /\ ~RLess(arrival.activation, Epsilon)

\* C29, as stated: every node appears at most once in the result; the value
\* recorded for a node is the activation carried by its first arrival (the
\* start node gets exactly a, a node first reached at recursion depth k
\* gets a * 0.7^k); every recorded value is at least 0.01 and every
\* recorded node was first reached at depth at most maxDepth.
C29_FirstArrivalRecorded ==
    (wLast.op = "spreadActivation") =>
        \A id \in DOMAIN wLast.result :
            LET first == wLast.arrivals[FirstArrival(wLast.arrivals, id)]
            IN  /\ wLast.result[id] = first.activation
                /\ wLast.result[id] = Decayed(wLast.activation, first.depth)
                /\ RLeq(Epsilon, wLast.result[id])
                /\ first.depth <= wLast.maxDepth

\* C29, amended: spreadActivation is a one-shot spread.  A node is recorded
\* at most once, by the first arrival that is within maxDepth and carries
\* no less than 0.01; arrivals turned away before that one (too deep or too
\* weak) leave no mark, and arrivals after it add nothing.  The recorded
\* value is what that arrival carried, a * 0.7^k at recursion depth k (a for
\* the start node), k is at most maxDepth, and no recorded value is below
\* 0.01 (a NaN activation is recorded as NaN).  Only stored nodes are
\* recorded.
C29_OneShotSpread ==
    (wLast.op = "spreadActivation") =>
        LET arrivals == wLast.arrivals
            recorded == {i \in DOMAIN arrivals : arrivals[i].recorded}
        IN  /\ DOMAIN wLast.result = {arrivals[i].id : i \in recorded}
            /\ \A i, j \in recorded : arrivals[i].id = arrivals[j].id => i = j
            /\ \A i \in DOMAIN arrivals :
                   /\ arrivals[i].activation = Decayed(wLast.activation, arrivals[i].depth)
                   /\ arrivals[i].recorded <=>
                          /\ arrivals[i].id \in DOMAIN nodes
                          /\ InReach(arrivals[i], wLast.maxDepth)
                          /\ \A j \in 1 .. (i - 1) :
                                 arrivals[j].id = arrivals[i].id
                                     => ~InReach(arrivals[j], wLast.maxDepth)
            /\ \A i \in recorded :
                   /\ wLast.result[arrivals[i].id] = arrivals[i].activation
                   /\ arrivals[i].depth <= wLast.maxDepth
                   /\ ~RLess(wLast.result[arrivals[i].id], Epsilon)
            /\ arrivals[1] = Arrival(wLast.startId, wLast.activation, 0,
                                     /\ wLast.startId \in DOMAIN nodes
                                     /\ wLast.maxDepth >= 0
                                     /\ ~RLess(wLast.activation, Epsilon))

\* A node was turned away on its first arrival, which was too deep, and
\* recorded on a later one over a shorter path with a larger value; and
\* another recorded node was arrived at again and turned away.
C29_Witness ==
    /\ wLast.op = "spreadActivation"
    /\ wLast.activation = One
    /\ \E i, j \in DOMAIN wLast.arrivals :
           /\ i < j
           /\ wLast.arrivals[i].id = wLast.arrivals[j].id
           /\ wLast.arrivals[i].depth > wLast.maxDepth
           /\ wLast.arrivals[j].recorded
           /\ wLast.result[wLast.arrivals[j].id] = decayFactor
    /\ \E i, j \in DOMAIN wLast.arrivals :
           /\ i < j
           /\ wLast.arrivals[i].id = wLast.arrivals[j].id
           /\ wLast.arrivals[i].recorded
           /\ InReach(wLast.arrivals[j], wLast.maxDepth)

(***************************************************************************)
(* Claims about the kernel registry                                        *)
(***************************************************************************)

\* C8: when the type handler of a registered kernel throws during
\* activate(id, input): the error message is appended to the state's error
\* list, performance becomes max(0, previous performance - 0.1), the active
\* flag is false when the call completes, activationCount is one higher
\* than before the call, and the same error is re-raised to the caller.
C8_HandlerFailure ==
    (kLast.op = "activate" /\ kLast.outcome = "rejected") =>
        /\ HasState(kLast.id)
        /\ getState(kLast.id).errors = <<kLast.error>>
        /\ getState(kLast.id).performance
               = Max2(0, kLast.before.performance - FailureStep)
        /\ getState(kLast.id).active = FALSE
        /\ getState(kLast.id).activationCount = kLast.before.activationCount + 1
        /\ kLast.error \in {"Unknown kernel type",
                            "Reduce of empty array with no initial value"}
        /\ kLast.error = processKernel(kernels[kLast.id], "doc").error

\* A handler failure on a state whose performance was already below 0.1,
\* after an earlier success on the same state: the clamp at 0 decides.
C8_Witness ==
    /\ kLast.op = "activate"
    /\ kLast.outcome = "rejected"
    /\ kLast.before.performance < FailureStep
    /\ kLast.before.performance > 0
    /\ kLast.before.errors # << >>

\* C9: when activate(id, input) on a registered kernel completes without a
\* handler error: activationCount has increased by exactly 1, the error
\* list is empty, performance is min(1.0, previous performance + 0.01), the
\* state's last output is the returned result, and the active flag is false.
C9_HandlerSuccess ==
    (kLast.op = "activate" /\ kLast.outcome = "resolved") =>
        /\ HasState(kLast.id)
        /\ getState(kLast.id).activationCount = kLast.before.activationCount + 1
        /\ getState(kLast.id).errors = << >>
        /\ getState(kLast.id).performance
               = Min2(FullPerformance, kLast.before.performance + SuccessStep)
        /\ getState(kLast.id).outputs = kLast.result
        /\ kLast.result = processKernel(kernels[kLast.id], "doc").result
        /\ getState(kLast.id).active = FALSE

\* A success on a state that given the error of an earlier failure and a
\* performance below 1.0.
C9_Witness ==
    /\ kLast.op = "activate"
    /\ kLast.outcome = "resolved"
    /\ kLast.before.errors # << >>
    /\ kLast.before.performance < FullPerformance - SuccessStep
    /\ kLast.before.activationCount > 1

\* C10: activate(id) for an id that is not registered rejects with a
\* not-found error, getState(id) is undefined before and after the call, and
\* the kernel map and the state of every registered kernel are unchanged;
\* and a call on an unregistered id ends no other way.
C10_ActivateMissing ==
    [][/\ (kLast'.op = "activate" /\ kLast'.outcome = "notFound") =>
              /\ kLast'.error = "Kernel not found"
              /\ ~HasState(kLast'.id)
              /\ kLast'.id \notin DOMAIN states'
              /\ kernels' = kernels
              /\ states' = states
              /\ objs' = objs
       /\ (kLast'.op = "activate" /\ kLast' # kLast /\ kLast'.id \notin DOMAIN kernels) =>
              kLast'.outcome = "notFound"]_vars

\* activate on a missing id has been rejected while another kernel, with
\* activations of its own, is registered.
C10_Witness ==
    /\ kLast.op = "activate"
    /\ kLast.outcome = "notFound"
    /\ \E id \in DOMAIN states :
           /\ id # kLast.id
           /\ getState(id).activationCount > 0

\* C11: in every reachable state no registered kernel lists its own id among
\* its dependencies, and every registered kernel passes validateKernel:
\* register refuses the kernels validation rejects.
C11_RegisteredKernelsValid ==
    \A id \in DOMAIN kernels :
        /\ \A i \in DOMAIN kernels[id].dependencies : kernels[id].dependencies[i] # id
        /\ validateKernel(kernels[id]) = << >>

\* C26: register(kernel) stores the kernel and a fresh state with active =
\* false, activationCount = 0, performance = 1.0 and an empty error list,
\* whatever the registry held before; registering an id that is already
\* registered replaces both the kernel and its state with these initial
\* values.  The state is a new object: no suspended activate holds it.
C26_RegisterStoresFreshState ==
    (kLast.op = "register") =>
        /\ kLast.id \in DOMAIN kernels
        /\ kernels[kLast.id] = kLast.result
        /\ HasState(kLast.id)
        /\ getState(kLast.id).id = kLast.id
        /\ getState(kLast.id).active = FALSE
        /\ getState(kLast.id).activationCount = 0
        /\ getState(kLast.id).performance = FullPerformance
        /\ getState(kLast.id).errors = << >>
        /\ states[kLast.id] \notin HeldRefs

\* A kernel whose handler returns is registered over an id whose state had
\* activations, a lowered performance and an error, while an activate of
\* the replaced kernel is still suspended at its await.
C26_Witness ==
    /\ kLast.op = "register"
    /\ kLast.before.activationCount > 1
    /\ kLast.before.performance < FullPerformance
    /\ kLast.before.errors # << >>
    /\ kLast.result.type = "hypergraph-primitive"
    /\ \E c \in CallIds : calls[c].pc = "awaiting" /\ calls[c].id = kLast.id

\* The steps of two activate calls a and b on one state: each enters, then
\* resumes with its handler's outcome.
OverlapSteps == {"enterA", "enterB", "resumeA", "resumeB"}

Position(run, step) == CHOOSE i \in DOMAIN run : run[i] = step

\* The orders in which the two calls overlap: each step once, a call enters
\* before it resumes, and each call enters before the other resumes.
OverlapRuns ==
    {run \in [1 .. 4 -> OverlapSteps] :
        /\ \A step \in OverlapSteps : \E i \in DOMAIN run : run[i] = step
        /\ Position(run, "enterA") < Position(run, "resumeB")
        /\ Position(run, "enterB") < Position(run, "resumeA")
        /\ Position(run, "enterA") < Position(run, "resumeA")
        /\ Position(run, "enterB") < Position(run, "resumeB")}

\* The state after the first n steps of a run on a kernel state, where the
\* handler threw for the calls in failing.
RECURSIVE StateAfter(_, _, _, _)
StateAfter(state, run, failing, n) ==
    IF n = 0 THEN state
    ELSE LET before == StateAfter(state, run, failing, n - 1)
             call == IF run[n] \in {"enterA", "resumeA"} THEN "a" ELSE "b"
         IN  IF run[n] \in {"enterA", "enterB"} THEN activateEnter(before)
             ELSE IF call \in failing THEN activateCatch(before, "Unknown kernel type")
             ELSE activateSuccess(before, ResultOf("hypergraph-result", "doc"))

\* C27, as stated: two activate calls on the same registered kernel that
\* overlap at the await of the handler can lose an update to the activation
\* counter: for a registered kernel there is an interleaving of the two
\* calls after which activationCount is smaller than the number of
\* activations started since registration.
C27_OverlapLosesActivation ==
    \A id \in DOMAIN states :
        \E run \in OverlapRuns, failing \in SUBSET {"a", "b"} :
            StateAfter(getState(id), run, failing, 4).activationCount < started[id] + 2

\* C27, amended: overlapping activate calls lose no update to the activation
\* counter.  The increment runs before the await, in the same turn as the
\* lookup, so in every reachable state the activationCount of a registered
\* kernel is the number of activations started since its registration.
C27_NoLostActivation ==
    \A id \in DOMAIN states : getState(id).activationCount = started[id]

\* One of two overlapping calls on the same state has completed while the
\* other is still suspended: both were counted, and the state already says
\* it is not active.
C27_Witness ==
    /\ kLast.op = "activate"
    /\ kLast.outcome \in {"resolved", "rejected"}
    /\ HasState(kLast.id)
    /\ \E c \in CallIds :
           /\ calls[c].pc = "awaiting"
           /\ calls[c].state = states[kLast.id]
    /\ getState(kLast.id).activationCount = 2
    /\ started[kLast.id] = 2
    /\ getState(kLast.id).active = FALSE

\* C28: in every state reachable by any sequence of register, unregister,
\* activate (succeeding or failing) and deactivate, the performance score
\* of every kernel state lies in [0,1].
C28_PerformanceInUnitInterval ==
    \A r \in Refs : objs[r].performance >= 0 /\ objs[r].performance <= FullPerformance

\* Both clamps have decided on one state: a success at performance 1.0 left
\* it at 1.0, and a later failure from below 0.1 left it at 0.
C28_Witness ==
    /\ kLast.op = "activate"
    /\ kLast.outcome = "rejected"
    /\ kLast.before.performance < FailureStep
    /\ kLast.before.performance # 0
    /\ kLast.before.outputs # NoOutputs
    /\ getState(kLast.id).performance = 0
    /\ getState(kLast.id).activationCount = MaxActivations

\* The results the hook merged into data, in the order of the list.
MergedResults(handled) ==
    SelectSeq(handled, LAMBDA entry : entry.how = "merged")

\* C25: the beforeValidate hook never fails because of a kernel: for the
\* configured kernel list, an activate call that throws is caught, every
\* later kernel in the list is still activated, kernel ids that are not
\* registered are skipped without an activation, and the hook returns the
\* document data (with one merge per activation that resolved).
C25_HookNeverFails ==
    /\ hook.pc \in {"idle", "running", "awaiting", "returned"}
    /\ Len(hook.handled) = hook.i - 1
    /\ \A n \in DOMAIN hook.handled :
           /\ hook.handled[n].id = hook.kernels[n]
           /\ hook.handled[n].how \in {"skipped", "merged", "caught"}
           /\ hook.handled[n].how = "skipped" <=> ~hook.handled[n].registered
    /\ Len(hook.data) = Len(MergedResults(hook.handled))
    /\ hook.pc = "returned" => Len(hook.handled) = Len(hook.kernels)
    /\ hook.pc = "awaiting" =>
           /\ calls[HookCall].pc = "awaiting"
           /\ calls[HookCall].id = hook.kernels[hook.i]

\* A run over k1, k2, k1 has returned: the first activate threw and was
\* caught, k2 was not registered and was skipped, and k1 was activated
\* again and its result merged.
C25_Witness ==
    /\ hook.pc = "returned"
    /\ hook.kernels = <<"k1", "k2", "k1">>
    /\ hook.handled[1].how = "caught"
    /\ hook.handled[2].how = "skipped"
    /\ hook.handled[3].how = "merged"
    /\ hook.data = <<ResultOf("hypergraph-result", "doc")>>

\* C35: in every state reachable by any sequence of register, unregister,
\* activate and deactivate, the kernel map and the state map of the
\* registry have exactly the same set of ids: every registered kernel has
\* one state and no state exists for an unregistered id.
C35_SameIds ==
    /\ DOMAIN kernels = DOMAIN states
    /\ \A id \in DOMAIN states : getState(id).id = id
    /\ \A id, other \in DOMAIN states : states[id] = states[other] => id = other

\* deactivate of an id that is not registered, while another kernel is
\* registered and has been activated: no state was made for the id.
C35_Witness ==
    /\ kLast.op = "deactivate"
    /\ kLast.id \notin DOMAIN kernels
    /\ kLast.id \notin DOMAIN states
    /\ \E id \in DOMAIN kernels : getState(id).activationCount > 0

\* The calls suspended at their await on the state object of a kernel.
InFlight(id) ==
    {c \in CallIds : calls[c].pc = "awaiting" /\ calls[c].state = states[id]}

\* C36: for every interleaving of activate calls on one registered kernel,
\* the kernel state's active flag is true whenever at least one of those
\* activations has started and not yet completed, and false only when none
\* is in flight.
C36_ActiveWhileInFlight ==
    \A id \in DOMAIN states : getState(id).active <=> InFlight(id) # {}

\* C37: after any sequence of activate calls on a registered kernel that do
\* not overlap, the kernel state's error list holds only what the most
\* recent activation recorded: it is empty after a successful activation
\* and has exactly one message after a failed one, so its length never
\* exceeds 1 however many activations have failed.
C37_ErrorsOfLastActivation ==
    /\ \A id \in DOMAIN states : Len(getState(id).errors) <= 1
    /\ (kLast.op = "activate" /\ kLast.outcome = "resolved" /\ HasState(kLast.id))
           => getState(kLast.id).errors = << >>
    /\ (kLast.op = "activate" /\ kLast.outcome = "rejected" /\ HasState(kLast.id))
           => getState(kLast.id).errors = <<kLast.error>>
    /\ (kLast.op = "activate" /\ kLast.outcome = "pending")
           => getState(kLast.id).errors = << >>

\* The sixth activation in a row has failed on a state that held the
\* message of the fifth.
C37_Witness ==
    /\ kLast.op = "activate"
    /\ kLast.outcome = "rejected"
    /\ kLast.before.errors # << >>
    /\ kLast.before.performance = FullPerformance - 5 * FailureStep
    /\ getState(kLast.id).activationCount = 6
    /\ Len(getState(kLast.id).errors) = 1

\* C39: for every registered kernel whose type is one of the eight
\* kernel-type tags and whose hypergraph-node, neural-layer and rule lists
\* are any well-typed lists (including empty ones, as produced by
\* createKernelTemplate), activate resolves with a result object, records
\* no error and does not lower the performance score.
C39_EightTypesResolve ==
    (/\ kLast.op = "activate"
     /\ kLast.outcome \in {"resolved", "rejected"}
     /\ kLast.id \in DOMAIN kernels
     /\ kernels[kLast.id].type \in KernelTypes)
    => /\ kLast.outcome = "resolved"
       /\ kLast.result # NoOutputs
       /\ getState(kLast.id).errors = << >>
       /\ getState(kLast.id).performance >= kLast.before.performance

(***************************************************************************)
(* Claims about the inference engine                                       *)
(***************************************************************************)

\* A statement is provable at a depth and on a proof path: it is within the
\* depth bound and not on the path, and it is a fact or the conclusion of a
\* stored rule whose premises are all provable one level deeper.
RECURSIVE Provable(_, _, _)
Provable(statement, depth, path) ==
    /\ depth <= maxInferenceDepth
    /\ statement \notin path
    /\ \/ statement \in DOMAIN facts
       \/ \E i \in DOMAIN rules :
              /\ rules[i].conclusion = statement
              /\ \A k \in DOMAIN rules[i].premise :
                     Provable(rules[i].premise[k], depth + 1, path \cup {statement})

\* C12: backwardChain(goal), for a goal that is not a fact, returns one
\* result for every rule concluding the goal all of whose premises are
\* provable, whatever was explored earlier in the same call.
C12_BackwardChainComplete ==
    (pLast.op = "backwardChain" /\ pLast.goal \notin DOMAIN facts) =>
        \A i \in DOMAIN rules :
            ( /\ rules[i].conclusion = pLast.goal
              /\ \A k \in DOMAIN rules[i].premise :
                     Provable(rules[i].premise[k], 1, {pLast.goal}) ) =>
                Cardinality({j \in DOMAIN pLast.results :
                                 pLast.results[j].rule = rules[i].id}) = 1

\* No stored rule has a glob or a variable among its premises: premises are
\* matched by exact string.
PlainRules ==
    \A i \in DOMAIN rules : Range(rules[i].premise) \cap (Globs \cup Variables) = {}

\* The statements that chaining the stored rules adds to a set of statements.
RECURSIVE Closure(_)
Closure(known) ==
    LET more == {rules[i].conclusion :
                     i \in {j \in DOMAIN rules : Range(rules[j].premise) \subseteq known}}
    IN  IF more \subseteq known THEN known ELSE Closure(known \cup more)

\* The conclusions reachable from the premises of the last call.
ReachableConclusions == Closure(Range(pLast.premises)) \ Range(pLast.premises)

Concluded == {pLast.results[j].conclusion : j \in DOMAIN pLast.results}

\* C13 as stated: forwardChain returns a result for every conclusion
\* reachable from the given premises by chaining the stored rules, for every
\* rule set and insertion order, and stops only when a pass fired no rule or
\* the pass bound is reached.
C13_EveryReachableConclusion ==
    (pLast.op = "forwardChain" /\ PlainRules) =>
        /\ \A i \in DOMAIN rules :
               Range(rules[i].premise) \subseteq Closure(Range(pLast.premises)) =>
                   rules[i].conclusion \in Concluded
        /\ (~pLast.changed \/ pLast.passes = maxInferenceDepth)

\* C13, amended: forwardChain stops only when a pass fired no rule or the
\* pass bound is reached; its results conclude, each once, statements that
\* are reachable and not among the given premises; when the last pass fired
\* no rule every such statement has a result; and when the bound stopped it
\* every one of the passes had fired a rule.
C13_ForwardChainClosure ==
    (pLast.op = "forwardChain" /\ PlainRules) =>
        /\ (~pLast.changed \/ pLast.passes = maxInferenceDepth)
        /\ Concluded \subseteq ReachableConclusions
        /\ Cardinality(Concluded) = Len(pLast.results)
        /\ ~pLast.changed => Concluded = ReachableConclusions
        /\ pLast.changed => Len(pLast.results) >= pLast.passes

\* A forwardChain that needed a second pass because the rule that uses r was
\* stored before the rule that derives r, and a third pass to see that
\* nothing is left.
C13_Witness ==
    /\ pLast.op = "forwardChain"
    /\ PlainRules
    /\ pLast.passes = 3
    /\ ~pLast.changed
    /\ Concluded = {"r", "g"}

\* C14 as stated: with a single stored rule whose premises are all in the
\* list passed to forwardChain and whose conclusion is not, forwardChain
\* returns exactly one result, with the rule's conclusion and the rule's
\* strength.
C14_SingleRuleResult ==
    ( /\ pLast.op = "forwardChain"
      /\ Len(rules) = 1
      /\ Range(rules[1].premise) \subseteq Range(pLast.premises)
      /\ rules[1].conclusion \notin Range(pLast.premises) ) =>
        /\ Len(pLast.results) = 1
        /\ pLast.results[1].conclusion = rules[1].conclusion
        /\ pLast.results[1].truthValue.strength = rules[1].truthValue.strength

\* C14, amended: the same for a rule that has at least one premise, the
\* rule p,q -> r of strength 0.9 giving one result r of strength 0.9; a rule
\* without premises gives one result of strength 0.
C14_SingleRuleWithPremises ==
    ( /\ pLast.op = "forwardChain"
      /\ Len(rules) = 1
      /\ Range(rules[1].premise) \subseteq Range(pLast.premises)
      /\ rules[1].conclusion \notin Range(pLast.premises) ) =>
        /\ Len(pLast.results) = 1
        /\ pLast.results[1].conclusion = rules[1].conclusion
        /\ pLast.results[1].rule = rules[1].id
        /\ rules[1].premise # << >> =>
               pLast.results[1].truthValue.strength = rules[1].truthValue.strength
        /\ rules[1].premise = << >> => pLast.results[1].truthValue.strength = Zero
        /\ (rules[1].id = "r1" /\ pLast.premises = <<"p", "q">>) =>
               /\ pLast.results[1].conclusion = "r"
               /\ pLast.results[1].truthValue.strength = Frac(9, 10)

\* The reference scenario: the only stored rule is p,q -> r with strength
\* 0.9 and forwardChain(['p','q']) has returned.
C14_Witness ==
    /\ pLast.op = "forwardChain"
    /\ Len(rules) = 1
    /\ rules[1].id = "r1"
    /\ pLast.premises = <<"p", "q">>
    /\ Len(pLast.results) = 1

\* A truth value with strength and uncertainty in [0,1].
InUnit(tv) ==
    /\ RLeq(Zero, tv.strength) /\ RLeq(tv.strength, One)
    /\ RLeq(Zero, tv.uncertainty) /\ RLeq(tv.uncertainty, One)

\* The four combinations of one round: commutative in strength and
\* uncertainty, associative in strength, and within [0,1].
Algebraic(r) ==
    /\ r.ab = r.ba
    /\ r.ab_c.strength = r.a_bc.strength
    /\ InUnit(r.ab) /\ InUnit(r.ab_c) /\ InUnit(r.a_bc)

RECURSIVE PremiseCount(_)
PremiseCount(rs) ==
    IF rs = << >> THEN 0 ELSE Len(Head(rs).premise) + PremiseCount(Tail(rs))

\* C30: backwardChain(goal) terminates for every finite rule set and fact
\* base, including rule sets with cyclic dependencies (a rule for a with
\* premise b and a rule for b with premise a) and rules whose premise equals
\* their conclusion; each goal string is expanded at most once per call and
\* recursion depth never exceeds 11.  Having expanded no goal twice, the
\* call tries each rule at most once, and so makes at most one call of
\* backtrack per premise of a stored rule after the first.
C30_BackwardChainTerminates ==
    (pLast.op = "backwardChain") =>
        /\ pLast.trace[1] = Backtracked(pLast.goal, 0, TRUE)
        /\ \A i, j \in DOMAIN pLast.trace :
               /\ pLast.trace[i].expanded
               /\ pLast.trace[j].expanded
               /\ pLast.trace[i].goal = pLast.trace[j].goal
               => i = j
        /\ \A i \in DOMAIN pLast.trace :
               /\ pLast.trace[i].depth <= maxInferenceDepth + 1
               /\ pLast.trace[i].expanded => pLast.trace[i].depth <= maxInferenceDepth
        /\ Len(pLast.trace) <= 1 + PremiseCount(rules)

\* On the chain with its two extra rules, the goal c11 is asked for again
\* by its own rule and by the rule for c10 and turned away both times, and
\* the chain is followed down to a call at depth 11, which is turned away.
C30_Witness ==
    /\ pLast.op = "backwardChain"
    /\ pLast.goal = "c11"
    /\ Len(pLast.trace) > 2
    /\ pLast.trace[2] = Backtracked("c11", 1, FALSE)
    /\ \E i \in DOMAIN pLast.trace : pLast.trace[i] = Backtracked("c11", 2, FALSE)
    /\ \E i \in DOMAIN pLast.trace :
           pLast.trace[i] = Backtracked("c0", maxInferenceDepth + 1, FALSE)

(***************************************************************************)
(* Claims about the pattern matcher                                        *)
(***************************************************************************)

\* The value holds no variable token, at any depth.
RECURSIVE VariableFree(_)
VariableFree(value) ==
    /\ ~isVariable(value)
    /\ \A k \in DOMAIN value.items : VariableFree(value.items[k].val)

\* The results of the last match that name the pattern id.
ResultsFor(id) == {j \in DOMAIN mLast.results : mLast.results[j].patternId = id}

\* Stored patterns that come before entry k in the order of the results:
\* a higher score, or the same score and stored earlier.
Ahead(k) ==
    {j \in DOMAIN mLast.scores :
        /\ ~RLess(mLast.scores[j], mConfig.confidenceThreshold)
        /\ \/ RLess(mLast.scores[k], mLast.scores[j])
           \/ (mLast.scores[j] = mLast.scores[k] /\ j < k)}

\* C15: for every pattern without variable tokens, after addPattern(pattern)
\* the pattern is stored, and the exact match of an input equal to it gives
\* that pattern confidence 1.0: the confidence computed is 1.0, every result
\* of match for the pattern carries it, and match returns the pattern unless
\* maxResults patterns are ahead of it.
C15_SelfMatchIsCertain ==
    /\ \A pattern \in PatternPool :
           VariableFree(pattern) =>
               calculateMatchConfidence(pattern, pattern).confidence = Frac(1, 1)
    /\ (mLast.op = "addPattern" /\ VariableFree(mLast.value)) =>
           \E k \in DOMAIN patterns :
               /\ patterns[k].id = generatePatternId(mLast.value)
               /\ patterns[k].pattern = mLast.value
    /\ mLast.op = "match" =>
           \A k \in DOMAIN patterns :
               (VariableFree(patterns[k].pattern) /\ patterns[k].pattern = mLast.value) =>
                   /\ mLast.scores[k] = Frac(1, 1)
                   /\ \A j \in ResultsFor(patterns[k].id) :
                          mLast.results[j].confidence = Frac(1, 1)
                   /\ Cardinality(Ahead(k)) < mConfig.maxResults =>
                          ResultsFor(patterns[k].id) # {}

\* match has returned the nested pattern for an input equal to it.
C15_Witness ==
    /\ mLast.op = "match"
    /\ \E k \in DOMAIN patterns :
           /\ patterns[k].pattern = mLast.value
           /\ VariableFree(mLast.value)
           /\ \E f \in DOMAIN mLast.value.items : mLast.value.items[f].val.kind = "array"
           /\ ResultsFor(patterns[k].id) # {}

\* C16: match(input) returns exactly the stored patterns whose exact-match
\* confidence is at least confidenceThreshold, ordered by non-increasing
\* confidence and cut to the first maxResults entries; no result is below
\* the threshold and there are never more than maxResults results.
C16_MatchKeepsSortsCuts ==
    mLast.op = "match" =>
        /\ Len(mLast.results) <= mConfig.maxResults
        /\ Len(mLast.scores) = Len(patterns)
        /\ \A j \in DOMAIN mLast.results :
               /\ ~RLess(mLast.results[j].confidence, mConfig.confidenceThreshold)
               /\ \E k \in DOMAIN patterns :
                      /\ patterns[k].id = mLast.results[j].patternId
                      /\ mLast.scores[k] = mLast.results[j].confidence
                      /\ Cardinality(Ahead(k)) = j - 1
        /\ \A j \in 1 .. (Len(mLast.results) - 1) :
               ~RLess(mLast.results[j].confidence, mLast.results[j + 1].confidence)
        /\ \A k \in DOMAIN patterns :
               ( /\ ~RLess(mLast.scores[k], mConfig.confidenceThreshold)
                 /\ Cardinality(Ahead(k)) < mConfig.maxResults ) =>
                   ResultsFor(patterns[k].id) # {}

\* A match at threshold 0 that kept three patterns, one of them with
\* confidence 0 and stored first, and returned the two with confidence 1.
C16_Witness ==
    /\ mLast.op = "match"
    /\ Len(mLast.scores) = 3
    /\ mLast.scores[1] = Zero
    /\ Len(mLast.results) = 2
    /\ mConfig.maxResults = 2
    /\ \A j \in DOMAIN mLast.results : mLast.results[j].confidence = Frac(1, 1)

\* The pattern matches the input structurally: a variable matches anything,
\* arrays agree in length and element by element, every key of a pattern
\* object is in the input with a matching value, scalars are equal.
RECURSIVE Structural(_, _)
Structural(p, i) ==
    IF isVariable(p) THEN TRUE
    ELSE IF p.kind = "array" /\ i.kind = "array"
    THEN /\ Len(p.items) = Len(i.items)
         /\ \A idx \in DOMAIN p.items : Structural(p.items[idx].val, i.items[idx].val)
    ELSE IF ~IsScalar(p) /\ ~IsScalar(i)
    THEN \A k \in DOMAIN p.items :
             /\ p.items[k].key \in Keys(i)
             /\ Structural(p.items[k].val, Get(i, p.items[k].key))
    ELSE IsScalar(p) /\ p = i

\* The counters matchRecursive leaves for a stored pattern and an input.
TallyOf(pattern, input) == matchRecursive(pattern, input, Tally(TRUE, 0, 0, << >>))

\* C33: the exact-match confidence of any stored pattern for any input is 0
\* or 1, and 1 exactly when the whole pattern matches structurally, every
\* visited subfield having matched; so match returns the same results under
\* every confidenceThreshold in (0, 1].
C33_ExactConfidenceZeroOrOne ==
    /\ \A k \in DOMAIN patterns, input \in MatchInputs :
           LET c == calculateMatchConfidence(patterns[k].pattern, input).confidence
               t == TallyOf(patterns[k].pattern, input)
           IN  /\ c \in {Zero, Frac(1, 1)}
               /\ c = Frac(1, 1) <=> Structural(patterns[k].pattern, input)
               /\ c = Frac(1, 1) <=> (t.ok /\ t.matchedFields = t.totalFields)
    /\ mLast.op = "match" =>
           /\ \A k \in DOMAIN mLast.scores : mLast.scores[k] \in {Zero, Frac(1, 1)}
           /\ RLess(Zero, mConfig.confidenceThreshold) =>
                  \A j \in DOMAIN mLast.results : mLast.results[j].confidence = Frac(1, 1)
    /\ mLast.op = "match" =>
           LET certain == match(MatcherConfig(Frac(1, 1), mConfig.maxResults),
                                patterns, mLast.value).results
           IN  /\ \A threshold \in PositiveThresholds \ {Frac(1, 1)} :
                      match(MatcherConfig(threshold, mConfig.maxResults),
                            patterns, mLast.value).results = certain
               /\ RLess(Zero, mConfig.confidenceThreshold) => mLast.results = certain

\* A match under a threshold of one half that scored a pattern 0 although
\* one of its subfields had matched, and returned another pattern.
C33_Witness ==
    /\ mLast.op = "match"
    /\ mConfig.confidenceThreshold = Frac(1, 2)
    /\ Len(mLast.results) = 1
    /\ \E k \in DOMAIN patterns :
           LET t == TallyOf(patterns[k].pattern, mLast.value)
           IN  /\ ~t.ok
               /\ t.matchedFields >= 1
               /\ t.matchedFields < t.totalFields
               /\ mLast.scores[k] = Zero

\* C34: fuzzyMatch of an input identical to a stored variable-free pattern
\* gives that pattern confidence 1.0, so for every threshold up to 1 the
\* pattern is returned, unless maxResults patterns are ahead of it, with a
\* truth value of strength 1.0 and uncertainty 0; and the fuzzy confidence
\* of every stored pattern for the input lies in [0, 1].
C34_FuzzySelfMatchIsCertain ==
    mLast.op = "fuzzyMatch" =>
        /\ \A k \in DOMAIN mLast.scores :
               RLeq(Zero, mLast.scores[k]) /\ RLeq(mLast.scores[k], Frac(1, 1))
        /\ \A k \in DOMAIN patterns :
               (VariableFree(patterns[k].pattern) /\ patterns[k].pattern = mLast.value) =>
                   /\ mLast.scores[k] = Frac(1, 1)
                   /\ \A j \in ResultsFor(patterns[k].id) :
                          /\ mLast.results[j].confidence = Frac(1, 1)
                          /\ mLast.results[j].truthValue = Certain
                   /\ Len(patterns) <= mConfig.maxResults =>
                          ResultsFor(patterns[k].id) # {}

(***************************************************************************)
(* Specifications: one engine runs, the others stay as constructed.        *)
(***************************************************************************)

\* The allocator as constructed from the reference configuration, untouched.
AllocIdle ==
    /\ config = ReferenceConfig
    /\ budget = config.totalBudget
    /\ allocations = config.modules
    /\ aCalls = 0
    /\ aLast = ANew

\* The inference engine as constructed, untouched.
PlnIdle ==
    /\ rules = << >>
    /\ facts = << >>
    /\ pCalls = 0
    /\ pLast = PNew

\* The pattern matcher as constructed, untouched.
MatcherIdle ==
    /\ mConfig = MatcherConfig(Frac(1, 2), 1)
    /\ patterns = << >>
    /\ mCalls = 0
    /\ mLast = MNew

InitWalk == WalkInit /\ AllocIdle /\ KernelInit /\ PlnIdle /\ MatcherIdle /\ HookIdle

InitGraph == GraphInit /\ CallerIdle /\ AllocIdle /\ KernelInit /\ PlnIdle /\ MatcherIdle /\ HookIdle

InitBudget == BudgetInit /\ GraphInit /\ CallerIdle /\ KernelInit /\ PlnIdle /\ MatcherIdle /\ HookIdle

InitAlloc == AllocInit /\ GraphInit /\ CallerIdle /\ KernelInit /\ PlnIdle /\ MatcherIdle /\ HookIdle

InitKernel == KernelInit /\ GraphInit /\ CallerIdle /\ AllocIdle /\ PlnIdle /\ MatcherIdle /\ HookIdle

InitCombine == PlnIdle /\ GraphInit /\ CallerIdle /\ AllocIdle /\ KernelInit /\ MatcherIdle /\ HookIdle

\* C31: an infer call never applies a rule twice: each rule id occurs at
\* most once in the results, there are at most as many results as stored
\* rules, every result's steps lies in 1 .. maxSteps, and at most maxSteps
\* inference steps are made.
C31_InferUsesEachRuleOnce ==
    pLast.op = "infer" =>
        /\ \A i, j \in DOMAIN pLast.results :
               pLast.results[i].rule = pLast.results[j].rule => i = j
        /\ Len(pLast.results) <= Len(rules)
        /\ \A i \in DOMAIN pLast.results : pLast.results[i].steps \in 1 .. pLast.maxSteps
        /\ pLast.passes <= pLast.maxSteps

\* A call that used all its steps, fired rules in different steps, and left
\* a fired rule applicable for the later steps.
C31_Witness ==
    /\ pLast.op = "infer"
    /\ pLast.maxSteps >= 2
    /\ pLast.passes = pLast.maxSteps
    /\ \E i, j \in DOMAIN pLast.results :
           /\ pLast.results[i].steps = 1
           /\ pLast.results[j].steps = pLast.maxSteps
    /\ Len(pLast.results) < Len(rules)

InitPln == PlnInit /\ GraphInit /\ CallerIdle /\ AllocIdle /\ KernelInit /\ MatcherIdle /\ HookIdle

InitMatcher == MatcherInit /\ GraphInit /\ CallerIdle /\ AllocIdle /\ KernelInit /\ PlnIdle /\ HookIdle

SpecGraph == InitGraph /\ [][GraphNext]_vars

\* The hypergraph store together with the caller that keeps the node object
\* it passed to addNode.
SpecHeld == InitGraph /\ [][HeldNext]_vars

\* The read calls of the hypergraph store on graphs of three nodes.
SpecWalk == InitWalk /\ [][WalkNext]_vars

SpecAlloc == InitAlloc /\ [][AllocNext]_vars

\* The allocator with redistribute and updateBudget among its calls.
SpecBudget == InitBudget /\ [][BudgetNext]_vars

SpecPln == InitPln /\ [][PlnNext]_vars

\* The truth-value combinators applied to truth values of [0,1].
SpecInfer == InitPln /\ [][InferNext]_vars

SpecCombine == InitCombine /\ [][CombineNext]_vars

SpecFuzzy == InitMatcher /\ [][FuzzyNext]_vars

SpecMatcher == InitMatcher /\ [][MatcherNext]_vars

\* The registry touched by one call at a time: a suspended activate resumes
\* before anything else runs.
SpecKernel == InitKernel /\ [][KernelNext]_vars

InitCycle == CycleInit /\ GraphInit /\ CallerIdle /\ AllocIdle /\ KernelInit /\ MatcherIdle /\ HookIdle

\* backwardChain on rule stores with cycles.
SpecCycle == InitCycle /\ [][CycleNext]_vars

InitReach == ReachInit /\ AllocIdle /\ KernelInit /\ PlnIdle /\ MatcherIdle /\ HookIdle

\* traverse on graphs of four nodes.
SpecReach == InitReach /\ [][ReachNext]_vars

\* spreadActivation on the graphs of the read calls.
SpecSpread == InitWalk /\ [][SpreadNext]_vars

\* The beforeValidate hook, with the registry changed by others under it.
SpecHook == InitKernel /\ [][HookNext]_vars

\* Overlapping activations of one kernel that stays registered.
SpecInFlight == InitKernel /\ [][InFlightNext]_vars

\* The registry touched by overlapping calls.
SpecOverlap == InitKernel /\ [][OverlapNext]_vars

====
